---- MODULE Spec2Model ----
(***************************************************************************)
(* CollocatedIntegratedOptimizationProblem of RTC-Tools: the transcription *)
(* of an optimal-control problem into an NLP (decision-vector layout,      *)
(* constraints, objective), its transcription cache, and the extraction of *)
(* named results from a solved decision vector.                            *)
(*                                                                         *)
(* Symbolic CasADi expressions are modelled as terms: a call of a CasADi   *)
(* Function is the record of the function and of the arguments it was      *)
(* called with; an entry of the decision vector X is its 0-based index.    *)
(***************************************************************************)
EXTENDS Integers, Sequences, FiniteSets, TLC

\* Bounds of the model.
MaxEnsemble == 2
MaxTimes == 3
MaxWidth == 2

VARIABLES
    problem,                                 \* the problem definition: what the model and data provider methods return
    integrator_step_function,                \* self.__integrator_step_function
    dae_residual_function_collocated,        \* self.__dae_residual_function_collocated
    initial_residual_with_params_fun_map,    \* self.__initial_residual_with_params_fun_map
    cached_with,                             \* the parameter values read by the call that filled the cache
    indices,                                 \* self.__indices
    control_size,                            \* self.__control_size
    state_size,                              \* self.__state_size
    nlp,                                     \* what the last call returned, a transcribe or a call that used its NLP
    integrators,                             \* self.integrators
    integrators_mx,                          \* self.integrators_mx
    solver_output,                           \* self.solver_output
    results,                                 \* what the last extract_* call returned
    log,                                     \* the warnings and errors the last transcribe logged
    linear_collocation,                      \* self.linear_collocation
    evaluated,                               \* the steps of the accumulation the solver has evaluated, with their outputs
    raised,                                  \* the exception the last call raised, "" when it returned
    last_op                                  \* the last call made on the problem instance

vars == <<problem, integrator_step_function, dae_residual_function_collocated,
          initial_residual_with_params_fun_map, cached_with, indices, control_size,
          state_size, nlp, integrators, integrators_mx, solver_output, results,
          log, linear_collocation, evaluated, raised, last_op>>

----------------------------------------------------------------------------
\* Helpers on sequences.

Range(s) == {s[i] : i \in DOMAIN s}

RECURSIVE SumSeq(_)
SumSeq(s) == IF s = <<>> THEN 0 ELSE Head(s) + SumSeq(Tail(s))

RECURSIVE Flatten(_)
Flatten(ss) == IF ss = <<>> THEN <<>> ELSE Head(ss) \o Flatten(Tail(ss))

IndexOf(s, e) == CHOOSE i \in DOMAIN s : s[i] = e

Min(a, b) == IF a < b THEN a ELSE b

\* X[a:b] of a 0-based array held as a sequence: Python clips a slice to the array.
PySlice(X, a, b) ==
    LET lo == Min(a, Len(X))
        hi == Min(b, Len(X))
    IN  [k \in 1..(IF hi > lo THEN hi - lo ELSE 0) |-> X[lo + k]]

\* slice(a, b) and a scalar offset, the two kinds of index-map entry.
Slice(a, b) == [start |-> a, stop |-> b, scalar |-> FALSE]
Offset(a) == [start |-> a, stop |-> a + 1, scalar |-> TRUE]

None == [built |-> FALSE]

----------------------------------------------------------------------------
\* The problem definition.

ensemble_size == problem.ensemble_size
Members == 0..(ensemble_size - 1)

differentiated_states == problem.differentiated_states
algebraic_states == problem.algebraic_states
controls == problem.controls
integrated_states == problem.integrated_states
path_variable_names == problem.path_variables
extra_variable_names == problem.extra_variables
derivatives == [k \in DOMAIN differentiated_states |-> differentiated_states[k]]

\* IOMixin.times(): get_times() from the forecast index on, for a problem
\* whose data provider is IOMixin.
IOMixin_times ==
    SubSeq(problem.import_times, problem.forecast_index + 1, Len(problem.import_times))

\* The variables of the model that IOMixin.history looks up.
IOMixin_variable_list ==
    {v \in Range(differentiated_states) \cup Range(algebraic_states) \cup Range(controls)
            \cup Range(problem.constant_inputs) :
        v \in DOMAIN problem.timeseries_values[0]}

\* A history that ends one time after the forecast index.
HistoryPastForecast(m) ==
    [v \in IOMixin_variable_list |->
        [times |-> SubSeq(problem.import_times, 1, problem.forecast_index + 2),
         values |-> SubSeq(problem.timeseries_values[m][v], 1, problem.forecast_index + 2)]]

\* IOMixin.history(ensemble_member): for every variable of the model with
\* imported values, get_times()[:end_index] and the values of the member
\* [:end_index], with end_index = get_forecast_index() + 1.
IOMixin_history(m) ==
    [v \in IOMixin_variable_list |->
        [times |-> SubSeq(problem.import_times, 1, problem.forecast_index + 1),
         values |-> SubSeq(problem.timeseries_values[m][v], 1, problem.forecast_index + 1)]]

\* The k-th time stamp (1-based) of the horizon; the steps are not uniform.
TimeAt(k) == IF "import_times" \in DOMAIN problem
             THEN IOMixin_times[k]
             ELSE ((k - 1) * k) \div 2

\* times(): the collocation times; times(variable): the variable's own grid,
\* which a problem may override: "coarse" keeps the first and the last time
\* only, "shifted" keeps the number of points and moves the interior ones.
n_collocation_times == IF "import_times" \in DOMAIN problem
                       THEN Len(IOMixin_times)
                       ELSE problem.n_times
collocation_times == [k \in 1..n_collocation_times |-> TimeAt(k)]
times(variable) ==
    IF variable \in DOMAIN problem.own_grid
    THEN IF problem.own_grid[variable] = "coarse"
         THEN <<TimeAt(1), TimeAt(n_collocation_times)>>
         ELSE [k \in 1..n_collocation_times |->
                  IF 1 < k /\ k < n_collocation_times THEN TimeAt(k) + 1 ELSE TimeAt(k)]
    ELSE collocation_times

variable_nominal(variable) ==
    CASE variable = "x" -> 2
      [] variable = "w" -> 3
      [] variable = "u" -> 5
      [] variable = "pv" -> 7
      [] OTHER -> 1

\* self.__variable_sizes: 1 for states, the symbol's size1() for path and extra variables.
variable_sizes(variable) ==
    IF variable \in Range(path_variable_names) \cup Range(extra_variable_names)
    THEN problem.symbol_size[variable]
    ELSE 1

----------------------------------------------------------------------------
\* discretize_controls: one slot per point of the control's own time grid,
\* the same slice for every ensemble member.

ControlTimes == [k \in DOMAIN controls |-> Len(times(controls[k]))]

\* A control block with slots of its own for every ensemble member.
ControlsOfEveryMember == ensemble_size * SumSeq(ControlTimes)

discretize_controls_count == SumSeq(ControlTimes)

discretize_controls_index(v) ==
    LET k == IndexOf(controls, v)
        offset == SumSeq(SubSeq(ControlTimes, 1, k - 1))
    IN  Slice(offset, offset + Len(times(v)))

discretize_controls_indices ==
    [m \in Members |-> [v \in Range(controls) |-> discretize_controls_index(v)]]

\* An entry of lbx, ubx or x0: -inf, +inf, or value / nominal.
MinusInf == [inf |-> -1, value |-> 0, nom |-> 1]
PlusInf == [inf |-> 1, value |-> 0, nom |-> 1]
Over(value, nominal) == [inf |-> 0, value |-> value, nom |-> nominal]

\* lbx, ubx and x0 of the control block, for scalar bounds and a constant
\* seed: the seed is looked up for a control that has an entry in bounds.
discretize_controls_bounds ==
    LET PerControl(Entry(_)) ==
            Flatten([k \in DOMAIN controls |->
                        [i \in 1..Len(times(controls[k])) |-> Entry(controls[k])]])
        Lower(v) == IF v \in DOMAIN problem.bounds
                    THEN Over(problem.bounds[v][1], variable_nominal(v)) ELSE MinusInf
        Upper(v) == IF v \in DOMAIN problem.bounds
                    THEN Over(problem.bounds[v][2], variable_nominal(v)) ELSE PlusInf
        Seed(v) == IF v \in DOMAIN problem.bounds /\ v \in DOMAIN problem.seed
                   THEN Over(problem.seed[v], variable_nominal(v)) ELSE Over(0, 1)
    IN  [lbx |-> PerControl(Lower), ubx |-> PerControl(Upper), x0 |-> PerControl(Seed)]

----------------------------------------------------------------------------
\* discretize_states.

StateChain == differentiated_states \o algebraic_states \o path_variable_names

\* Space for one variable of the chain (the sizing loop).
SpaceFor(variable) ==
    IF variable \in Range(integrated_states)
    THEN 1
    ELSE variable_sizes(variable) * Len(times(variable))

ensemble_member_size ==
    SumSeq([k \in DOMAIN StateChain |-> SpaceFor(StateChain[k])])
    + SumSeq([k \in DOMAIN extra_variable_names |-> variable_sizes(extra_variable_names[k])])
    + Len(derivatives)

discretize_states_count == ensemble_size * ensemble_member_size

\* A bound that is not a number.
NaN == -999

\* lbx and ubx of the block of an ensemble member, for scalar bounds, and
\* the errors logged for the bounds that contain NaN.
discretize_states_bounds(m) ==
    LET names == StateChain \o extra_variable_names
        Space(v) == IF v \in Range(extra_variable_names) THEN variable_sizes(v) ELSE SpaceFor(v)
        Lower(v) == IF v \in DOMAIN problem.bounds
                    THEN Over(problem.bounds[v][1], variable_nominal(v)) ELSE MinusInf
        Upper(v) == IF v \in DOMAIN problem.bounds
                    THEN Over(problem.bounds[v][2], variable_nominal(v)) ELSE PlusInf
        IsNaN(entry) == entry.inf = 0 /\ entry.value = NaN
        Errors(v) ==
            (IF IsNaN(Lower(v))
             THEN <<"ERROR: Lower bound on variable " \o v \o " contains NaN">> ELSE <<>>)
            \o (IF IsNaN(Upper(v))
                THEN <<"ERROR: Upper bound on variable " \o v \o " contains NaN">> ELSE <<>>)
        PerVariable(Entry(_)) ==
            Flatten([k \in DOMAIN names |-> [i \in 1..Space(names[k]) |-> Entry(names[k])]])
    IN  [lbx |-> PerVariable(Lower) \o [k \in DOMAIN derivatives |-> MinusInf],
         ubx |-> PerVariable(Upper) \o [k \in DOMAIN derivatives |-> PlusInf],
         log |-> Flatten([k \in DOMAIN names |-> Errors(names[k])])]

\* An index loop that advances by the number of time points only.
IndexStepOfTimes(variable) ==
    IF variable \in Range(integrated_states)
    THEN 1
    ELSE Len(times(variable))

\* What the index loop advances offset by after a variable of the chain.
IndexStep(variable) ==
    IF variable \in Range(integrated_states)
    THEN 1
    ELSE Len(times(variable)) * variable_sizes(variable)

ChainSteps == [k \in DOMAIN StateChain |-> IndexStep(StateChain[k])]
ExtraSteps == [k \in DOMAIN extra_variable_names |-> variable_sizes(extra_variable_names[k])]

discretize_states_index(m, v) ==
    IF v \in Range(StateChain)
    THEN LET k == IndexOf(StateChain, v)
             offset == m * ensemble_member_size + SumSeq(SubSeq(ChainSteps, 1, k - 1))
         IN  IF v \in Range(integrated_states)
             THEN Offset(offset)
             ELSE Slice(offset, offset + Len(times(v)) * variable_sizes(v))
    ELSE LET k == IndexOf(extra_variable_names, v)
             offset == m * ensemble_member_size + SumSeq(ChainSteps)
                       + SumSeq(SubSeq(ExtraSteps, 1, k - 1))
         IN  Slice(offset, offset + variable_sizes(v))

discretize_states_indices ==
    [m \in Members |->
        [v \in Range(StateChain) \cup Range(extra_variable_names) |->
            discretize_states_index(m, v)]]

\* transcribe: merge the state vector offset dictionaries.
Shift(value, by) == [value EXCEPT !.start = @ + by, !.stop = @ + by]

MergedIndex(m, v) ==
    IF v \in Range(controls)
    THEN discretize_controls_index(v)
    ELSE Shift(discretize_states_index(m, v), discretize_controls_count)

MergedIndices ==
    [m \in Members |->
        [v \in Range(controls) \cup Range(StateChain) \cup Range(extra_variable_names) |->
            MergedIndex(m, v)]]

\* x_inds[v], [v], as lists of Python ints.
indices_as_lists(idx) == [k \in 1..(idx.stop - idx.start) |-> idx.start + k - 1]

----------------------------------------------------------------------------
\* Terms for CasADi expressions.

XRef(i, nominal) == [kind |-> "X", idx |-> i, nom |-> nominal]               \* nominal * X[i]
Num(v) == [kind |-> "num", val |-> v]
FiniteDifference(hi, lo, dt) == [kind |-> "fd", hi |-> hi, lo |-> lo, dt |-> dt]   \* (hi - lo) / dt
\* nominal * interpolate(times, X[start:start+n], collocation_times)[k]
Interpolated(start, n, nominal, k) ==
    [kind |-> "interp", idx |-> start, n |-> n, nom |-> nominal, at |-> k]
\* Output j of the integrator at step `step` of the chain of ensemble member m.
IntegratorOutput(m, step, j) == [kind |-> "I", member |-> m, step |-> step, var |-> j]
\* X[i] / dt * nominal
InitialDerivative(i, dt, nominal) == [kind |-> "X/dt", idx |-> i, dt |-> dt, nom |-> nominal]

Sym(name) == [sym |-> name, der |-> FALSE]
Der(name) == [sym |-> name, der |-> TRUE]
Syms(names) == [k \in DOMAIN names |-> Sym(names[k])]
Ders(names) == [k \in DOMAIN names |-> Der(names[k])]

\* A call of Function fn with parameter vector p and argument vector x.
Call(fn, p, x) == [fn |-> fn, p |-> p, x |-> x]
NoCall == [fn |-> None]

----------------------------------------------------------------------------
\* Model provider and data provider.

\* What a method of the problem returns when the problem overrides it, and
\* what the base class returns otherwise.
Given(field, default) == IF field \in DOMAIN problem THEN problem[field] ELSE default

parameters == problem.parameters
constant_inputs == problem.constant_inputs
dae_residual == problem.dae_residual
theta2 == problem.theta2                     \* theta, in halves
initial_time == TimeAt(1)

\* parameters(ensemble_member)[variable]
parameter_value(m, variable) == problem.parameter_values[m][variable]

\* history(ensemble_member): for some variables a series [times, values]
\* that ends at the initial time; none in the base class.
history(m) == IF "import_times" \in DOMAIN problem
              THEN IOMixin_history(m)
              ELSE Given("history", [k \in Members |-> <<>>])[m]

\* self.__extra_constant_inputs: a symbol [name, size] for every entry of
\* extra_constant_inputs_name_and_size, the list that the loop over the
\* ensemble members extends with the constant inputs that
\* constant_inputs(ensemble_member) returns and the DAE does not declare.
extra_constant_inputs ==
    Flatten([k \in 1..ensemble_size |->
                SelectSeq(Given("supplied_constant_inputs", [m \in Members |-> <<>>])[k - 1],
                          LAMBDA x : x.name \notin Range(constant_inputs))])

\* constant_inputs(ensemble_member)[variable], interpolated at collocation time k
constant_input_at(m, variable, k) == 100 + 10 * m + k

\* Every member with the weight of the first one.
FirstMemberProbability(m) == problem.probability[0]

ensemble_member_probability(m) == problem.probability[m]

----------------------------------------------------------------------------
\* transcribe: integrated and collocated variables and derivatives.

InIntegratedStates(variable) == variable \in Range(integrated_states)
NotInIntegratedStates(variable) == variable \notin Range(integrated_states)

integrated_variables ==
    SelectSeq(differentiated_states \o algebraic_states, InIntegratedStates)
collocated_variables ==
    SelectSeq(differentiated_states \o algebraic_states, NotInIntegratedStates) \o controls

integrated_derivatives == SelectSeq(differentiated_states, InIntegratedStates)
collocated_derivatives ==
    SelectSeq(differentiated_states, NotInIntegratedStates) \o algebraic_states \o controls

----------------------------------------------------------------------------
\* transcribe: parameters that are constant across the ensemble are inlined.

\* A classification that takes no parameter for dynamic.
NoDynamicParameterNames == {}

dynamic_parameter_names ==
    IF problem.dynamic_parameters /= {}
    THEN {p \in Range(parameters) : p \in problem.dynamic_parameters}
    ELSE {}

\* np.all(values): a truth value, which Python compares as 1 or 0.
NpAll(values) == IF \A m \in DOMAIN values : values[m] /= 0 THEN 1 ELSE 0

IsConstantParameter(parameter) ==
    LET values == [m \in Members |-> parameter_value(m, parameter)]
    IN  /\ (ensemble_size = 1 \/ NpAll(values) = values[0])
        /\ parameter \notin dynamic_parameter_names
IsEnsembleParameter(parameter) == ~IsConstantParameter(parameter)

constant_parameters == SelectSeq(parameters, IsConstantParameter)
constant_parameter_values ==
    [k \in DOMAIN constant_parameters |-> parameter_value(0, constant_parameters[k])]
ensemble_parameters == SelectSeq(parameters, IsEnsembleParameter)
ensemble_parameter_values(m) ==
    [k \in DOMAIN ensemble_parameters |-> parameter_value(m, ensemble_parameters[k])]

\* What ca.substitute(..., constant_parameters, constant_parameter_values) puts into an expression.
Inlined == [names |-> constant_parameters, values |-> constant_parameter_values]
NotInlined == [names |-> <<>>, values |-> <<>>]

----------------------------------------------------------------------------
\* transcribe: split the DAE into an integrated and a collocated part.

\* A row that depends on the derivative of any state.
DependsOnAnyDerivative(output) == dae_residual[output].ders /= {}

DependsOnIntegratedDerivative(output) ==
    \E k \in DOMAIN integrated_derivatives :
        integrated_derivatives[k] \in dae_residual[output].ders
IsCollocatedOutput(output) == ~DependsOnIntegratedDerivative(output)

dae_outputs == [k \in DOMAIN dae_residual |-> k]
dae_residual_integrated == SelectSeq(dae_outputs, DependsOnIntegratedDerivative)
dae_residual_collocated == SelectSeq(dae_outputs, IsCollocatedOutput)

----------------------------------------------------------------------------
\* transcribe: the Functions kept in the transcription cache.  A Function is
\* its name, its declared inputs (the parameter vector and the symbols of
\* the argument vector), the rows of its output, the parameter values that
\* were substituted into its expression when it was built, and theta where
\* the expression was blended with it.

NewIntegratorStepFunction ==
    [built |-> TRUE, name |-> "integrator_step_function",
     params |-> ensemble_parameters,
     args |-> Syms(collocated_variables) \o Syms(constant_inputs) \o <<Sym("dt")>>
              \o Syms(collocated_variables) \o Ders(collocated_derivatives)
              \o Syms(constant_inputs) \o <<Sym("time")>>,
     rows |-> dae_residual_integrated,
     constants |-> Inlined,
     theta2 |-> theta2]

NewDaeResidualFunctionCollocated ==
    [built |-> TRUE, name |-> "dae_residual_function_collocated",
     params |-> ensemble_parameters,
     args |-> Syms(integrated_variables) \o Syms(collocated_variables)
              \o Ders(integrated_derivatives) \o Ders(collocated_derivatives)
              \o Syms(constant_inputs) \o <<Sym("time")>>,
     rows |-> dae_residual_collocated,
     constants |-> Inlined,
     theta2 |-> 2]

\* ca.veccat(dae_residual, initial_residual), mapped over the ensemble.  The
\* residuals carry the inlined constants only if this call has substituted them.
NewInitialResidualFunMap(substituted) ==
    [built |-> TRUE, name |-> "initial_residual_total",
     params |-> ensemble_parameters,
     args |-> Syms(differentiated_states) \o Syms(algebraic_states) \o Syms(controls)
              \o Ders(integrated_derivatives) \o Ders(collocated_derivatives)
              \o Syms(constant_inputs) \o <<Sym("time")>>,
     rows |-> dae_outputs \o [k \in 1..problem.initial_residual |-> Len(dae_residual) + k],
     constants |-> IF substituted THEN Inlined ELSE NotInlined,
     theta2 |-> 2]

\* A guard that fills the cache in every call.
CacheIsAlwaysCold == TRUE

\* The guard of the block that fills the cache.
CacheIsCold ==
    dae_residual_function_collocated = None /\ integrator_step_function = None

IntegratorStepFunctionAfter ==
    IF CacheIsCold /\ Len(integrated_variables) > 0
    THEN NewIntegratorStepFunction
    ELSE integrator_step_function

DaeResidualFunctionCollocatedAfter ==
    IF CacheIsCold /\ Len(collocated_variables) > 0
    THEN NewDaeResidualFunctionCollocated
    ELSE dae_residual_function_collocated

InitialResidualFunMapAfter ==
    IF initial_residual_with_params_fun_map = None
    THEN NewInitialResidualFunMap(CacheIsCold)
    ELSE initial_residual_with_params_fun_map

\* A check that takes every residual for affine.
LinearCollocationAssumed == "True"

\* self.linear_collocation after the block that fills the cache: the check
\* of the collocated residual is part of that block.
LinearCollocationAfter ==
    IF /\ CacheIsCold
       /\ Given("check_collocation_linearity", TRUE)
       /\ Len(dae_residual_collocated) > 0
    THEN IF Range(dae_residual_collocated) \cap Given("non_affine", {}) = {}
         THEN "True" ELSE "False"
    ELSE linear_collocation

\* solver_options()
solver_options ==
    [jac_c_constant |-> IF linear_collocation = "True" THEN "yes" ELSE "no"]

\* Rebuilt by every call: the path objective of member 0, with the constants inlined.
path_objective_function ==
    [built |-> TRUE, name |-> "path_objective", member |-> 0,
     params |-> ensemble_parameters,
     args |-> Syms(integrated_variables) \o Syms(collocated_variables)
              \o Ders(integrated_derivatives) \o Ders(collocated_derivatives)
              \o Syms(constant_inputs) \o <<Sym("time")>> \o Syms(path_variable_names),
     rows |-> <<1>>,
     constants |-> Inlined,
     theta2 |-> 2]

\* CasADi accepts for the parameter input of a Function a vector of the
\* declared length, an empty one (taken as zeros) or a scalar (repeated).
Accepts(fn, width) ==
    \/ Len(ensemble_parameters) = Len(fn.params)
    \/ Len(ensemble_parameters) = 0
    \/ Len(ensemble_parameters) = 1 /\ width = 1

PassedParameters(fn, values) ==
    IF Len(values) = Len(fn.params) THEN values
    ELSE IF Len(values) = 0 THEN [k \in DOMAIN fn.params |-> 0]
    ELSE [k \in DOMAIN fn.params |-> values[1]]

----------------------------------------------------------------------------
\* transcribe: the values an ensemble member feeds into the Functions.

\* self.__initial_dt[variable]: the last step of the history of member 0
\* when it has one before the first time of the variable.
initial_dt(variable) ==
    LET h == history(0)
        grid == times(variable)
    IN  IF variable \in DOMAIN h
        THEN IF h[variable].times[1] = grid[1] \/ Len(h[variable].values) = 1
             THEN grid[2] - grid[1]
             ELSE h[variable].times[Len(h[variable].times)]
                  - h[variable].times[Len(h[variable].times) - 1]
        ELSE grid[2] - grid[1]

\* X[initial_state_indices] * nominals, integrated variables first.
initial_state(m) ==
    LET names == integrated_variables \o collocated_variables
    IN  [j \in DOMAIN names |->
            XRef(MergedIndex(m, names[j]).start, variable_nominal(names[j]))]

der_offset(m) ==
    discretize_controls_count + (m + 1) * ensemble_member_size - Len(derivatives)

\* A slot of the decision vector for a differentiated state; for the
\* others the slope of the last step of the history, or 0.0.
initial_derivatives(m) ==
    LET names == integrated_variables \o collocated_variables
        h == history(m)
        FromHistory(v) ==
            IF v \in DOMAIN h
            THEN IF h[v].times[1] = initial_time \/ Len(h[v].values) = 1
                 THEN Num(0)
                 ELSE FiniteDifference(Num(h[v].values[Len(h[v].values)]),
                                       Num(h[v].values[Len(h[v].values) - 1]),
                                       h[v].times[Len(h[v].times)]
                                       - h[v].times[Len(h[v].times) - 1])
            ELSE Num(0)
    IN  [j \in DOMAIN names |->
            IF names[j] \in Range(differentiated_states)
            THEN InitialDerivative(der_offset(m) + IndexOf(differentiated_states, names[j]) - 1,
                                   initial_dt(names[j]), variable_nominal(names[j]))
            ELSE FromHistory(names[j])]

\* Component c of a path variable starts at c * len(times(variable)).
PathVariableComponents(variable) ==
    [c \in 1..variable_sizes(variable) |-> c - 1]

initial_path_variables(m) ==
    Flatten([j \in DOMAIN path_variable_names |->
        LET variable == path_variable_names[j]
        IN  [c \in DOMAIN PathVariableComponents(variable) |->
                XRef(MergedIndex(m, variable).start + (c - 1) * Len(times(variable)),
                     variable_nominal(variable))]])

\* values.reshape((n_collocation_times, variable_size))[1:, :], row of collocation time k.
path_variables_at(m, k) ==
    Flatten([j \in DOMAIN path_variable_names |->
        LET variable == path_variable_names[j]
        IN  [c \in DOMAIN PathVariableComponents(variable) |->
                XRef(MergedIndex(m, variable).start + (c - 1) * n_collocation_times + (k - 1),
                     variable_nominal(variable))]])

\* The reshape needs as many values as n_collocation_times * variable_size.
PathVariablesReshape ==
    \A j \in DOMAIN path_variable_names :
        Len(times(path_variable_names[j])) = n_collocation_times

\* self.extra_variable(name, ensemble_member) for every extra variable
extra_variables(m) ==
    Flatten([j \in DOMAIN extra_variable_names |->
        LET variable == extra_variable_names[j]
        IN  [c \in 1..variable_sizes(variable) |->
                XRef(MergedIndex(m, variable).start + c - 1, variable_nominal(variable))]])

constant_inputs_at(m, k) ==
    [j \in DOMAIN constant_inputs |-> Num(constant_input_at(m, constant_inputs[j], k))]

\* The entry of a collocated variable at its first time, whatever k.
StateAtFirstTime(m, variable, k) ==
    XRef(MergedIndex(m, variable).start, variable_nominal(variable))

\* interpolated_states: a collocated variable at collocation time k.  A
\* variable on a grid of another length is interpolated onto the collocation times.
InterpolatedState(m, variable, k) ==
    LET idx == MergedIndex(m, variable)
    IN  IF idx.stop - idx.start = n_collocation_times
        THEN XRef(idx.start + k - 1, variable_nominal(variable))
        ELSE Interpolated(idx.start, idx.stop - idx.start, variable_nominal(variable), k)

collocated_states_at(m, k) ==
    [j \in DOMAIN collocated_variables |-> InterpolatedState(m, collocated_variables[j], k)]

\* Initial conditions for the integrator, in the order of self.integrated_states.
accumulation_X0(m) ==
    [j \in DOMAIN integrated_states |->
        XRef(MergedIndex(m, integrated_states[j]).start, variable_nominal(integrated_states[j]))]

\* A chain that hands the initial conditions to every step.
IntegratedStatesAtStart(m, i) == accumulation_X0(m)

\* The integrated states after i steps of the chain of member m.
integrated_states_after(m, i) ==
    IF i = 0
    THEN accumulation_X0(m)
    ELSE [j \in DOMAIN integrated_variables |-> IntegratorOutput(m, i, j)]

----------------------------------------------------------------------------
\* transcribe: one step of the accumulation over the interval
\* [collocation time i, collocation time i + 1] for ensemble member m, with
\* the integrator step function fi and the collocated residual function fc.

\* A blend that keeps the residual at the end of the interval, whatever theta.
CollocationResidualAtEnd(theta_2, dae_residual_0, dae_residual_1) ==
    [start_weight |-> 0, start |-> NoCall, end_weight |-> 2, end |-> dae_residual_1]

\* theta * dae_residual_1 + (1 - theta) * dae_residual_0, in halves; a residual
\* that the code does not evaluate for this theta has weight 0.
CollocationResidual(theta_2, dae_residual_0, dae_residual_1) ==
    IF theta_2 = 0
    THEN [start_weight |-> 2, start |-> dae_residual_0, end_weight |-> 0, end |-> NoCall]
    ELSE IF theta_2 = 2
    THEN [start_weight |-> 0, start |-> NoCall, end_weight |-> 2, end |-> dae_residual_1]
    ELSE [start_weight |-> 2 - theta_2, start |-> dae_residual_0,
          end_weight |-> theta_2, end |-> dae_residual_1]

NoResidual == [start_weight |-> 0, start |-> NoCall, end_weight |-> 0, end |-> NoCall]

Step(m, i, fi, fc) ==
    LET t0 == initial_time
        collocation_time_0 == TimeAt(i)
        collocation_time_1 == TimeAt(i + 1)
        dt == collocation_time_1 - collocation_time_0
        symbolic_parameters == ensemble_parameter_values(m)
        integrated_states_0 == integrated_states_after(m, i - 1)
        integrated_states_1 == integrated_states_after(m, i)
        collocated_states_0 == collocated_states_at(m, i)
        collocated_states_1 == collocated_states_at(m, i + 1)
        constant_inputs_0 == constant_inputs_at(m, i)
        constant_inputs_1 == constant_inputs_at(m, i + 1)
        collocated_finite_differences ==
            [j \in DOMAIN collocated_variables |->
                FiniteDifference(collocated_states_1[j], collocated_states_0[j], dt)]
        integrated_finite_differences ==
            [j \in DOMAIN integrated_variables |->
                FiniteDifference(integrated_states_1[j], integrated_states_0[j], dt)]
        dae_residual_0 ==
            Call(fc, PassedParameters(fc, symbolic_parameters),
                 integrated_states_0 \o collocated_states_0
                 \o integrated_finite_differences \o collocated_finite_differences
                 \o constant_inputs_0 \o <<Num(collocation_time_0 - t0)>>)
        dae_residual_1 ==
            Call(fc, PassedParameters(fc, symbolic_parameters),
                 integrated_states_1 \o collocated_states_1
                 \o integrated_finite_differences \o collocated_finite_differences
                 \o constant_inputs_1 \o <<Num(collocation_time_1 - t0)>>)
    IN  [integrator |->
            IF Len(integrated_variables) > 0
            THEN [fn |-> fi, p |-> PassedParameters(fi, symbolic_parameters),
                  x |-> collocated_states_0 \o constant_inputs_0 \o <<Num(dt)>>
                        \o collocated_states_1 \o collocated_finite_differences
                        \o constant_inputs_1 \o <<Num(collocation_time_1 - t0)>>,
                  guess |-> integrated_states_0, I0 |-> integrated_states_0]
            ELSE NoCall,
         residual |->
            IF Len(collocated_variables) > 0
            THEN CollocationResidual(theta2, dae_residual_0, dae_residual_1)
            ELSE NoResidual,
         path_objective |->
            IF problem.path_objective
            THEN [fn |-> path_objective_function, p |-> symbolic_parameters,
                  x |-> integrated_states_1 \o collocated_states_1
                        \o integrated_finite_differences \o collocated_finite_differences
                        \o constant_inputs_1 \o <<Num(collocation_time_1 - t0)>>
                        \o path_variables_at(m, i + 1),
                  extra |-> extra_variables(m)]
            ELSE NoCall]

\* The mapped initial residual for ensemble member m.
InitialResidual(m, fmap) ==
    Call(fmap, PassedParameters(fmap, ensemble_parameter_values(m)),
         initial_state(m) \o initial_derivatives(m) \o constant_inputs_at(m, 1) \o <<Num(0)>>)

\* The initial conditions that the history of member m gives.  fixed: the
\* first slot of a state or control gets lbx = ubx = the value of the
\* history at the initial time, unless that is NaN.  A differentiated state
\* with a history of several points whose last but one value is not NaN
\* gets a bound on its initial derivative when the last value is known, and
\* a constraint sym - val otherwise, sym being initial_derivatives[i] with i
\* the position of the state in differentiated_states.
InitialConditions(m) ==
    LET h == history(m)
        t0 == initial_time
        Last(series) == series[Len(series)]
        LastButOne(series) == series[Len(series) - 1]
        \* self.interpolate(t0, times, values, nan, nan), t0 being one of the times or outside
        AtInitialTime(v) ==
            IF \E k \in DOMAIN h[v].times : h[v].times[k] = t0
            THEN h[v].values[CHOOSE k \in DOMAIN h[v].times : h[v].times[k] = t0]
            ELSE NaN
        fixed == SelectSeq(differentiated_states \o algebraic_states \o controls,
                           LAMBDA v : v \in DOMAIN h /\ AtInitialTime(v) /= NaN)
        WithHistory(v) ==
            v \in DOMAIN h /\ Len(h[v].times) > 1 /\ LastButOne(h[v].values) /= NaN
        constrained == SelectSeq(differentiated_states,
                                 LAMBDA v : WithHistory(v) /\ Last(h[v].values) = NaN)
        bounded == SelectSeq(differentiated_states,
                             LAMBDA v : WithHistory(v) /\ Last(h[v].values) /= NaN)
    IN  [fixed |->
            [k \in DOMAIN fixed |->
                [variable |-> fixed[k], member |-> m, slot |-> MergedIndex(m, fixed[k]).start,
                 value |-> Over(AtInitialTime(fixed[k]), variable_nominal(fixed[k]))]],
         initial_derivative_constraints |->
            [k \in DOMAIN constrained |->
                LET v == constrained[k]
                IN  [sym |-> initial_derivatives(m)[IndexOf(differentiated_states, v)],
                     t0_val |-> XRef(MergedIndex(m, v).start, variable_nominal(v)),
                     before |-> LastButOne(h[v].values),
                     dt |-> t0 - LastButOne(h[v].times)]],
         initial_derivative_bounds |->
            [k \in DOMAIN bounded |->
                LET v == bounded[k]
                IN  [variable |-> v, member |-> m,
                     slot |-> der_offset(m) + IndexOf(differentiated_states, v) - 1,
                     value |-> Over((AtInitialTime(v) - LastButOne(h[v].values)) * initial_dt(v),
                                    (t0 - LastButOne(h[v].times)) * variable_nominal(v))]]]

\* The delayed side of a delayed-feedback constraint with a constant delay:
\* the history samples before the initial time are checked for NaN from
\* hist_start_ind on, and dropped when one is found.
DelayedFeedbackHistory ==
    LET feedback == problem.delayed_feedback
        history_times == feedback.history_times
        out_times == history_times \o collocation_times
        hist_earliest == collocation_times[1] - feedback.delay
        \* np.searchsorted(out_times, hist_earliest)
        searchsorted == Cardinality({k \in DOMAIN out_times : out_times[k] < hist_earliest})
        hist_start_ind == IF out_times[searchsorted + 1] /= hist_earliest
                          THEN searchsorted - 1 ELSE searchsorted
        \* delayed_feedback_history[hist_start_ind:], where a negative index counts from the end
        first == IF hist_start_ind >= 0 THEN hist_start_ind
                 ELSE IF Len(history_times) + hist_start_ind > 0
                      THEN Len(history_times) + hist_start_ind ELSE 0
        checked == {k \in DOMAIN history_times : k > first}
        incomplete == checked \cap feedback.nan /= {}
    IN  [hist_start_ind |-> hist_start_ind,
         incomplete |-> incomplete,
         out_times |-> IF incomplete THEN collocation_times ELSE out_times]

\* The path objective at the initial time.
InitialPathObjective(m) ==
    IF problem.path_objective
    THEN [fn |-> path_objective_function, p |-> ensemble_parameter_values(m),
          x |-> initial_state(m) \o initial_derivatives(m) \o constant_inputs_at(m, 1)
                \o <<Num(0)>> \o initial_path_variables(m),
          extra |-> extra_variables(m)]
    ELSE NoCall

----------------------------------------------------------------------------
\* transcribe: the NLP.

Steps == 1..(n_collocation_times - 1)

\* A row of g: row `row` of the output of the initial residual of a member
\* (step 0), or of the collocation residual of a member at a step.
InitialRow(m, row) == [kind |-> "initial", member |-> m, step |-> 0, row |-> row]
CollocationRow(m, i, row) == [kind |-> "collocation", member |-> m, step |-> i, row |-> row]

\* The output of the initial residual of the first member only.
InitialResidualRowsOfFirst(fmap) ==
    [r \in DOMAIN fmap.rows |-> InitialRow(0, r)]

\* ca.vec(res): the output of the map, member after member.
InitialResidualRows(fmap) ==
    Flatten([k \in 1..ensemble_size |-> [r \in DOMAIN fmap.rows |-> InitialRow(k - 1, r)]])

\* ca.vec of the first dae_residual_collocated_size rows of the accumulation, step after step.
CollocationConstraints(m, fc) ==
    IF Len(collocated_variables) > 0
    THEN Flatten([i \in Steps |-> [r \in DOMAIN fc.rows |-> CollocationRow(m, i, r)]])
    ELSE <<>>

\* No bounds for a block of rows.
NoZeros(rows) == <<>>

\* zeros: a lower and an upper bound of 0 for each row of a block.
Zeros(rows) == [k \in DOMAIN rows |-> 0]

\* The constraints of a member with the bounds as constraints() gives them.
ConstraintsAsGiven(m) ==
    [i \in DOMAIN Given("constraints", <<>>) |->
        LET constraint == problem.constraints[i]
            AsGiven(bound) == [k \in 1..(IF bound.len = 0 THEN 1 ELSE bound.len) |-> bound.value]
        IN  [g |-> [r \in 1..constraint.size |->
                      [kind |-> "constraint", member |-> m, step |-> i - 1, row |-> r]],
             lbg |-> AsGiven(constraint.lb), ubg |-> AsGiven(constraint.ub)]]

\* self.constraints(ensemble_member): a bound is a scalar (len 0) or an
\* array; for a constraint of several rows a scalar and an array of length
\* 1 are broadcast to its rows.
Constraints(m) ==
    [i \in DOMAIN Given("constraints", <<>>) |->
        LET constraint == problem.constraints[i]
            Broadcast(bound) ==
                IF constraint.size > 1 /\ bound.len \in {0, 1}
                THEN [k \in 1..constraint.size |-> bound.value]
                ELSE [k \in 1..(IF bound.len = 0 THEN 1 ELSE bound.len) |-> bound.value]
        IN  [g |-> [r \in 1..constraint.size |->
                      [kind |-> "constraint", member |-> m, step |-> i - 1, row |-> r]],
             lbg |-> Broadcast(constraint.lb), ubg |-> Broadcast(constraint.ub)]]

\* The path constraints of a member: the rows at the initial time (step 0)
\* and at the later collocation times, and their bounds, time after time.
\* The expressions are those of path_constraints(0); the bounds are those
\* of path_constraints(m): a number, an array with one entry per row, a
\* time series (sampled here at times of its own, the fill outside its
\* range), or an expression in a parameter, which is substituted with
\* __parameter_values_ensemble_member_0.
PathConstraints(m) ==
    LET path_constraints == Given("path_constraints", <<>>)
        Resolved(bound, fill, k, r) ==
            CASE bound.kind = "number" -> Over(bound.value, 1)
              [] bound.kind = "array" -> Over(bound.entries[r], 1)
              [] bound.kind = "timeseries" ->
                    IF \E j \in DOMAIN bound.times : bound.times[j] = collocation_times[k]
                    THEN Over(bound.values[CHOOSE j \in DOMAIN bound.times :
                                              bound.times[j] = collocation_times[k]], 1)
                    ELSE fill
              [] bound.kind = "parameter" -> Over(parameter_value(0, bound.name), 1)
        Rows(Entry(_, _, _)) ==
            Flatten([k \in 1..n_collocation_times |->
                Flatten([j \in DOMAIN path_constraints |->
                    [r \in 1..path_constraints[j].size |-> Entry(j, k, r)]])])
        OfMember(j) == path_constraints[j].bounds[m]
    IN  [g |-> Rows(LAMBDA j, k, r :
                  [kind |-> "path_constraint", member |-> m, step |-> k - 1,
                   row |-> SumSeq([i \in 1..(j - 1) |-> path_constraints[i].size]) + r]),
         lbg |-> Rows(LAMBDA j, k, r : Resolved(OfMember(j).lb, MinusInf, k, r)),
         ubg |-> Rows(LAMBDA j, k, r : Resolved(OfMember(j).ub, PlusInf, k, r))]

\* f_member, weighted.
Objective(m) ==
    [probability |-> ensemble_member_probability(m),
     objective |-> m,
     initial_path_objective |-> InitialPathObjective(m),
     discretized_path_objective |->
        IF problem.path_objective
        THEN [i \in Steps |-> [member |-> m, step |-> i]]
        ELSE <<>>]

\* What transcribe assembles with the cache (fi, fc, fmap).
BuildNLP(fi, fc, fmap) ==
    LET g_initial == InitialResidualRows(fmap)
        g_collocation == [k \in 1..ensemble_size |-> CollocationConstraints(k - 1, fc)]
        \* (x_in - x_out_delayed) / nominal of the delayed feedback: a row per collocation time
        g_delayed ==
            [k \in 1..ensemble_size |->
                IF "delayed_feedback" \in DOMAIN problem
                THEN [t \in 1..n_collocation_times |->
                        [kind |-> "delayed_feedback", member |-> k - 1, step |-> t - 1, row |-> 1]]
                ELSE <<>>]
        Of(all, k, field) == Flatten([i \in DOMAIN all[k] |-> all[k][i][field]])
        \* lbx[idx] = ubx[idx] = val, member after member
        Bounds(declared, overrides) ==
            [slot \in DOMAIN declared |->
                LET last == {k \in DOMAIN overrides :
                                /\ overrides[k].slot = slot - 1
                                /\ \A j \in DOMAIN overrides :
                                      overrides[j].slot = slot - 1 => j <= k}
                IN  IF last = {} THEN declared[slot]
                    ELSE overrides[CHOOSE k \in last : TRUE].value]
        Assembled(conditions, constraints, path_constraints, control_bounds, states_bounds) ==
            LET g_initial_derivative ==
                    [k \in 1..ensemble_size |->
                        [r \in DOMAIN conditions[k - 1].initial_derivative_constraints |->
                            [kind |-> "initial_derivative", member |-> k - 1, step |-> 0,
                             row |-> r]]]
                overrides ==
                    Flatten([k \in 1..ensemble_size |->
                                conditions[k - 1].fixed
                                \o conditions[k - 1].initial_derivative_bounds])
            IN  [g |-> g_initial
                       \o Flatten([k \in 1..ensemble_size |->
                                      g_initial_derivative[k] \o g_collocation[k]
                                      \o g_delayed[k]
                                      \o Of(constraints, k - 1, "g") \o path_constraints[k - 1].g]),
                 lbg |-> Zeros(g_initial)
                         \o Flatten([k \in 1..ensemble_size |->
                                        Zeros(g_initial_derivative[k]) \o Zeros(g_collocation[k])
                                        \o Zeros(g_delayed[k])
                                        \o Of(constraints, k - 1, "lbg")
                                        \o path_constraints[k - 1].lbg]),
                 ubg |-> Zeros(g_initial)
                         \o Flatten([k \in 1..ensemble_size |->
                                        Zeros(g_initial_derivative[k]) \o Zeros(g_collocation[k])
                                        \o Zeros(g_delayed[k])
                                        \o Of(constraints, k - 1, "ubg")
                                        \o path_constraints[k - 1].ubg]),
                 constraints |-> constraints,
                 lbx_control |-> control_bounds.lbx,
                 ubx_control |-> control_bounds.ubx,
                 x0_control |-> control_bounds.x0,
                 lbx_states |-> Flatten([k \in 1..ensemble_size |-> states_bounds[k - 1].lbx]),
                 ubx_states |-> Flatten([k \in 1..ensemble_size |-> states_bounds[k - 1].ubx]),
                 lbx |-> Bounds(control_bounds.lbx
                                \o Flatten([k \in 1..ensemble_size |-> states_bounds[k - 1].lbx]),
                                overrides),
                 ubx |-> Bounds(control_bounds.ubx
                                \o Flatten([k \in 1..ensemble_size |-> states_bounds[k - 1].ubx]),
                                overrides),
                 initial_conditions |-> conditions]
    IN  Assembled([m \in Members |-> InitialConditions(m)],
                  [m \in Members |-> Constraints(m)],
                  [m \in Members |-> PathConstraints(m)],
                  discretize_controls_bounds,
                  [m \in Members |-> discretize_states_bounds(m)])
        @@ [built |-> TRUE,
            X |-> discretize_controls_count + discretize_states_count,
            f |-> [k \in 1..ensemble_size |-> Objective(k - 1)],
            extra_constant_inputs |-> extra_constant_inputs,
            \* the length of accumulated_U
            accumulated_U |->
                2 * (Len(collocated_variables) + Len(constant_inputs) + 1)
                + SumSeq([j \in DOMAIN path_variable_names |->
                             variable_sizes(path_variable_names[j])])
                + SumSeq([j \in DOMAIN extra_constant_inputs |-> extra_constant_inputs[j].size]),
            constant_parameters |-> Inlined,
            delayed_feedback |->
               IF "delayed_feedback" \in DOMAIN problem
               THEN [m \in Members |-> DelayedFeedbackHistory.out_times] ELSE <<>>,
            parameters |-> [m \in Members |-> ensemble_parameter_values(m)],
            initial |-> [m \in Members |-> InitialResidual(m, fmap)],
            steps |-> [m \in Members |-> [i \in Steps |-> Step(m, i, fi, fc)]]]

NoNLP == [built |-> FALSE]

----------------------------------------------------------------------------
\* transcribe: the integrators stored for result extraction.  Row i of the
\* integrator outputs of member m is a 1 x (n_collocation_times - 1) matrix;
\* integrators_mx holds the columns.

IntegratorsOf(m) ==
    [v \in Range(integrated_variables) |->
        [member |-> m, var |-> IndexOf(integrated_variables, v),
         size1 |-> 1, size2 |-> n_collocation_times - 1]]

IntegratorsMxOf(m) ==
    [j \in Steps |-> [i \in DOMAIN integrated_variables |-> IntegratorOutput(m, j, i)]]

\* The member loop assigns both attributes anew for every member.
LastMember == ensemble_size - 1

----------------------------------------------------------------------------
\* extract_controls, extract_states.

Scaled(nominal, value) == [nom |-> nominal, value |-> value]

extract_controls(m) ==
    LET X == solver_output
        n_times == [k \in DOMAIN controls |-> Len(times(controls[k]))]
    IN  [v \in Range(controls) |->
            LET k == IndexOf(controls, v)
                offset == SumSeq(SubSeq(n_times, 1, k - 1))
                values == PySlice(X, offset, offset + n_times[k])
            IN  [i \in DOMAIN values |-> variable_nominal(v) * values[i]]]

\* X[offset:offset + n * size].reshape((n, size)): a reshape without the transposition.
ReshapeRows(values, size, n) ==
    [k \in 1..n |-> [c \in 1..size |-> values[(k - 1) * size + c]]]

\* X[offset:offset + n * size].reshape((size, n)).transpose(): n rows of size values.
ReshapeTranspose(values, size, n) ==
    [k \in 1..n |-> [c \in 1..size |-> values[(c - 1) * n + k]]]

extract_states(m) ==
    LET X == solver_output
        ensemble_member_size_ == state_size \div ensemble_size
        chain == differentiated_states \o algebraic_states
        advance == [k \in DOMAIN chain |->
                       IF chain[k] \in Range(integrated_states) THEN 1 ELSE Len(times(chain[k]))]
        offset_0 == control_size + m * ensemble_member_size_
        offset_1 == offset_0 + SumSeq(advance)
        path_advance == [k \in DOMAIN path_variable_names |->
                            n_collocation_times * variable_sizes(path_variable_names[k])]
        offset_2 == offset_1 + SumSeq(path_advance)
        extra_advance == [k \in DOMAIN extra_variable_names |->
                             variable_sizes(extra_variable_names[k])]
        offset_3 == offset_2 + SumSeq(extra_advance)
        integrators_output == Flatten(integrators_mx)
        n == [k \in DOMAIN integrated_states |-> integrators[integrated_states[k]].size1]
        integrated ==
            [v \in Range(integrated_states) |->
                LET k == IndexOf(integrated_states, v)
                    j == SumSeq(SubSeq(n, 1, k - 1))
                    values == PySlice(integrators_output, j, j + n[k])
                IN  [i \in DOMAIN values |-> Scaled(variable_nominal(v), values[i])]]
        collocated ==
            [v \in {c \in Range(chain) : c \notin Range(integrated_states)} |->
                LET k == IndexOf(chain, v)
                    offset == offset_0 + SumSeq(SubSeq(advance, 1, k - 1))
                    values == PySlice(X, offset, offset + Len(times(v)))
                IN  [i \in DOMAIN values |-> variable_nominal(v) * values[i]]]
        path ==
            [v \in Range(path_variable_names) |->
                LET k == IndexOf(path_variable_names, v)
                    offset == offset_1 + SumSeq(SubSeq(path_advance, 1, k - 1))
                    variable_size == variable_sizes(v)
                    values == PySlice(X, offset, offset + n_collocation_times * variable_size)
                IN  IF variable_size > 1
                    THEN [i \in 1..n_collocation_times |->
                             [c \in 1..variable_size |->
                                 variable_nominal(v)
                                 * ReshapeTranspose(values, variable_size, n_collocation_times)[i][c]]]
                    ELSE [i \in DOMAIN values |-> variable_nominal(v) * values[i]]]
        extra ==
            [v \in Range(extra_variable_names) |->
                LET k == IndexOf(extra_variable_names, v)
                    offset == offset_2 + SumSeq(SubSeq(extra_advance, 1, k - 1))
                    variable_size == variable_sizes(v)
                IN  IF variable_size > 1
                    THEN <<[c \in 1..variable_size |-> variable_nominal(v) * X[offset + c]]>>
                    ELSE <<variable_nominal(v) * X[offset + 1]>>]
        initial_der ==
            [v \in {"initial_der(" \o d \o ")" : d \in Range(differentiated_states)} |->
                LET d == CHOOSE d \in Range(differentiated_states) : v = "initial_der(" \o d \o ")"
                    k == IndexOf(differentiated_states, d) - 1
                IN  <<[nom |-> variable_nominal(d), dt |-> initial_dt(d), x |-> X[offset_3 + k + 1]]>>]
    IN  (IF Len(integrated_states) > 0 THEN integrated ELSE <<>>)
        @@ collocated @@ path @@ extra @@ initial_der

\* state_at(variable, t, ensemble_member, scaled=True) for the k-th time of
\* the grid of a state, an algebraic state or a path variable, an entry of
\* the symbolic X: the offset is found by walking the variables before it.
state_at(variable, k, m) ==
    LET ensemble_member_size_ == state_size \div ensemble_size
        before == SubSeq(StateChain, 1, IndexOf(StateChain, variable) - 1)
        advance == [j \in DOMAIN before |->
                       IF before[j] \in Range(integrated_states)
                       THEN 1 ELSE Len(times(before[j]))]
        offset == control_size + m * ensemble_member_size_ + SumSeq(advance)
    IN  IF variable_sizes(variable) > 1
        THEN "NotImplementedError: state_at() not supported for vector states"
        ELSE IF variable \in Range(integrated_states)
        THEN IF k = 1
             THEN XRef(offset, 1)
             ELSE IntegratorOutput(integrators[variable].member, k - 1, integrators[variable].var)
        ELSE XRef(offset + k - 1, 1)

----------------------------------------------------------------------------
\* The operations of the problem instance.

\* A call into a cached Function with a parameter vector of another length,
\* or the reshape of a path variable on a grid of another length, raises.
TranscribeRaises ==
    \/ Len(integrated_variables) > 0 /\ ~Accepts(IntegratorStepFunctionAfter, 1)
    \/ Len(collocated_variables) > 0 /\ ~Accepts(DaeResidualFunctionCollocatedAfter, 1)
    \/ ~Accepts(InitialResidualFunMapAfter, ensemble_size)
    \/ ~PathVariablesReshape

\* A transcribe that raises for a missing parameter without naming it, and
\* for nothing else.
UnnamedException(part) ==
    IF /\ part = "inputs"
       /\ \E m \in Members : \E variable \in Range(parameters) :
              variable \notin DOMAIN problem.parameter_values[m]
    THEN "Exception: No value specified for parameter"
    ELSE ""

\* The exception that a part of transcribe raises first, "" when it raises
\* none: "inputs" is the part before the layout of the decision vector,
\* "cache" the block that fills the cache.
TranscribeException(part) ==
    LET First(names) == names[1]
        IsVector(variable) == variable_sizes(variable) > 1
        vector_integrated == SelectSeq(integrated_states, IsVector)
        vector_controls == SelectSeq(controls, IsVector)
        NoParameter(m) ==
            LET Missing(variable) == variable \notin DOMAIN problem.parameter_values[m]
            IN  SelectSeq(parameters, Missing)
        NoConstantInput(m) ==
            LET Missing(variable) == <<m, variable>> \in Given("missing_constant_inputs", {})
            IN  SelectSeq(constant_inputs, Missing)
        Incomplete(m) == NoParameter(m) /= <<>> \/ NoConstantInput(m) /= <<>>
        first_incomplete == CHOOSE m \in Members : Incomplete(m) /\ \A n \in 0..(m - 1) : ~Incomplete(n)
        NoLookupTable(symbol) == symbol \notin Given("lookup_tables", {})
        no_lookup_table == SelectSeq(Given("lookup_table_symbols", <<>>), NoLookupTable)
        \* assert h.times[-1] == times[0], for a history of member 0 of several
        \* points that does not start at the first time of the variable
        history_ends_elsewhere ==
            \E k \in DOMAIN differentiated_states :
                LET variable == differentiated_states[k]
                    h == history(0)
                IN  /\ variable \in DOMAIN h
                    /\ h[variable].times[1] /= times(variable)[1]
                    /\ Len(h[variable].values) /= 1
                    /\ h[variable].times[Len(h[variable].times)] /= times(variable)[1]
    IN  CASE part = "inputs" ->
                IF history_ends_elsewhere
                THEN "AssertionError"
                ELSE IF vector_integrated /= <<>>
                THEN "NotImplementedError: Vector symbol not supported for integrated state '"
                     \o First(vector_integrated) \o "'"
                ELSE IF vector_controls /= <<>>
                THEN "NotImplementedError: Vector symbol not supported for control state '"
                     \o First(vector_controls) \o "'"
                ELSE IF \E m \in Members : Incomplete(m)
                THEN IF NoParameter(first_incomplete) /= <<>>
                     THEN "Exception: No value specified for parameter "
                          \o First(NoParameter(first_incomplete))
                     ELSE "Exception: No values found for constant input "
                          \o First(NoConstantInput(first_incomplete))
                ELSE ""
          [] part = "cache" ->
                IF CacheIsCold /\ no_lookup_table /= <<>>
                THEN "Exception: Unable to find lookup table function for " \o First(no_lookup_table)
                ELSE ""
          [] part = "constraints" ->
                LET given == Given("constraints", <<>>)
                    Mismatch(bound, i) ==
                        given[i].size > 1 /\ bound.len \notin {0, 1, given[i].size}
                    mismatches == {i \in DOMAIN given :
                                      Mismatch(given[i].lb, i) \/ Mismatch(given[i].ub, i)}
                    i == CHOOSE j \in mismatches : \A k \in mismatches : j <= k
                    Message(side, bound) ==
                        "Exception: Shape mismatch between constraint #" \o ToString(i - 1)
                        \o " (" \o ToString(given[i].size) \o ",) and its " \o side
                        \o " bound (" \o ToString(bound.len) \o ",)"
                IN  IF mismatches = {} THEN ""
                    ELSE IF Mismatch(given[i].lb, i) THEN Message("lower", given[i].lb)
                    ELSE Message("upper", given[i].ub)

\* What transcribe logs when it gets as far as `reached`: 1 the layout,
\* 2 the block that fills the cache, 3 the constraints of the members.
TranscribeLog(reached) ==
    LET lookup_tables_of_first ==
            IF CacheIsCold /\ Given("lookup_table_symbols", <<>>) /= <<>> /\ ensemble_size > 1
            THEN <<"WARNING: Using lookup tables of ensemble member #0 for all members.">>
            ELSE <<>>
        not_affine ==
            IF /\ CacheIsCold
               /\ Given("check_collocation_linearity", TRUE)
               /\ Len(dae_residual_collocated) > 0
               /\ LinearCollocationAfter = "False"
            THEN <<"WARNING: The DAE residual contains equations that are not affine.">>
            ELSE <<>>
        \* val < lbx[idx] or val > ubx[idx], with lbx and ubx as the members
        \* before have left them
        declared ==
            [lbx |-> discretize_controls_bounds.lbx
                     \o Flatten([k \in 1..ensemble_size |-> discretize_states_bounds(k - 1).lbx]),
             ubx |-> discretize_controls_bounds.ubx
                     \o Flatten([k \in 1..ensemble_size |-> discretize_states_bounds(k - 1).ubx])]
        Less(a, b) ==
            \/ b.inf = 1
            \/ b.inf = 0 /\ b.value /= NaN /\ a.value * b.nom < b.value * a.nom
        Greater(a, b) ==
            \/ b.inf = -1
            \/ b.inf = 0 /\ b.value /= NaN /\ a.value * b.nom > b.value * a.nom
        Current(bounds, entry, fixed) ==
            LET earlier == {k \in 0..(entry.member - 1) :
                              \E j \in DOMAIN fixed[k] : fixed[k][j].slot = entry.slot}
                k == CHOOSE k \in earlier : \A j \in earlier : j <= k
            IN  IF earlier = {} THEN bounds[entry.slot + 1]
                ELSE fixed[k][CHOOSE j \in DOMAIN fixed[k] : fixed[k][j].slot = entry.slot].value
        OutsideBounds(fixed, lbx, ubx) ==
            Flatten([k \in 1..ensemble_size |->
                Flatten([j \in DOMAIN fixed[k - 1] |->
                    IF \/ Less(fixed[k - 1][j].value, Current(lbx, fixed[k - 1][j], fixed))
                       \/ Greater(fixed[k - 1][j].value, Current(ubx, fixed[k - 1][j], fixed))
                    THEN <<"WARNING: Initial value for variable '" \o fixed[k - 1][j].variable
                           \o "' outside bounds.">>
                    ELSE <<>>])])
        outside_bounds ==
            OutsideBounds([m \in Members |-> InitialConditions(m).fixed],
                          declared.lbx, declared.ubx)
        incomplete_history ==
            IF "delayed_feedback" \in DOMAIN problem /\ DelayedFeedbackHistory.incomplete
            THEN [m \in 1..ensemble_size |->
                    "WARNING: Incomplete history for delayed expression 1. "
                    \o "Extrapolating t0 value backwards in time."]
            ELSE <<>>
    IN  Flatten([k \in 1..ensemble_size |-> discretize_states_bounds(k - 1).log])
        \o (IF reached >= 2 THEN lookup_tables_of_first \o not_affine ELSE <<>>)
        \o (IF reached >= 3 THEN outside_bounds \o incomplete_history ELSE <<>>)

Transcribe ==
    /\ last_op' = "transcribe"
    /\ UNCHANGED <<problem, solver_output, results>>
    /\ IF TranscribeException("inputs") /= ""
       THEN /\ raised' = TranscribeException("inputs")
            /\ log' = <<>>
            /\ UNCHANGED <<integrator_step_function, dae_residual_function_collocated,
                           initial_residual_with_params_fun_map, cached_with, indices,
                           control_size, state_size, nlp, integrators, integrators_mx,
                           evaluated, linear_collocation>>
       ELSE /\ indices' = MergedIndices
            /\ control_size' = discretize_controls_count
            /\ state_size' = discretize_states_count
            /\ evaluated' = <<>>
            /\ IF TranscribeException("cache") /= ""
               THEN /\ raised' = TranscribeException("cache")
                    /\ log' = TranscribeLog(1)
                    /\ UNCHANGED <<integrator_step_function, dae_residual_function_collocated,
                                   initial_residual_with_params_fun_map, cached_with, nlp,
                                   integrators, integrators_mx, linear_collocation>>
               ELSE /\ integrator_step_function' = IntegratorStepFunctionAfter
                    /\ dae_residual_function_collocated' = DaeResidualFunctionCollocatedAfter
                    /\ initial_residual_with_params_fun_map' = InitialResidualFunMapAfter
                    /\ cached_with' = IF CacheIsCold THEN problem.parameter_values
                                      ELSE cached_with
                    /\ linear_collocation' = LinearCollocationAfter
                    /\ IF TranscribeRaises
                       THEN /\ raised' = "RuntimeError"
                            /\ log' = TranscribeLog(2)
                            /\ UNCHANGED <<nlp, integrators, integrators_mx>>
                       ELSE IF TranscribeException("constraints") /= ""
                       THEN /\ raised' = TranscribeException("constraints")
                            /\ log' = TranscribeLog(3)
                            /\ integrators' = IF Len(integrated_variables) > 0
                                              THEN IntegratorsOf(0) ELSE integrators
                            /\ integrators_mx' = IF Len(integrated_variables) > 0
                                                 THEN IntegratorsMxOf(0) ELSE integrators_mx
                            /\ UNCHANGED nlp
                       ELSE /\ raised' = ""
                            /\ log' = TranscribeLog(3)
                            /\ nlp' = BuildNLP(IntegratorStepFunctionAfter,
                                               DaeResidualFunctionCollocatedAfter,
                                               InitialResidualFunMapAfter)
                            /\ integrators' = IF Len(integrated_variables) > 0
                                              THEN IntegratorsOf(LastMember) ELSE integrators
                            /\ integrators_mx' = IF Len(integrated_variables) > 0
                                                 THEN IntegratorsMxOf(LastMember)
                                                 ELSE integrators_mx

ClearTranscriptionCache ==
    /\ last_op' = "clear_transcription_cache"
    /\ raised' = ""
    /\ dae_residual_function_collocated' = None
    /\ integrator_step_function' = None
    /\ initial_residual_with_params_fun_map' = None
    /\ cached_with' = <<>>
    /\ nlp' = NoNLP
    /\ UNCHANGED <<problem, indices, control_size, state_size, integrators,
                   integrators_mx, solver_output, results, evaluated, log,
                   linear_collocation>>

\* The data provider returns other parameter values from now on: a for the
\* first member and b for the others.
ParameterValues == {0, 1, 2}

Valuation(a, b) ==
    [m \in Members |-> [k |-> IF m = 0 THEN a ELSE b, q |-> 7]]

SetParameters ==
    /\ \E a, b \in ParameterValues :
           /\ Valuation(a, b) /= problem.parameter_values
           /\ problem' = [problem EXCEPT !.parameter_values = Valuation(a, b)]
    /\ last_op' = "set_parameters"
    /\ raised' = ""
    /\ nlp' = NoNLP
    /\ UNCHANGED <<integrator_step_function, dae_residual_function_collocated,
                   initial_residual_with_params_fun_map, cached_with, indices, control_size,
                   state_size, integrators, integrators_mx, solver_output, results,
                   evaluated, log, linear_collocation>>

\* The data provider returns other bounds and another seed from now on.
BoundsChoices == {<<>>, [u |-> <<-1, 1>>]}
SeedChoices == {<<>>, [u |-> 4]}

SetBoundsAndSeed ==
    /\ \E bounds \in BoundsChoices, seed \in SeedChoices :
           /\ <<bounds, seed>> /= <<problem.bounds, problem.seed>>
           /\ problem' = [problem EXCEPT !.bounds = bounds, !.seed = seed]
    /\ last_op' = "set_bounds_and_seed"
    /\ raised' = ""
    /\ nlp' = NoNLP
    /\ UNCHANGED <<integrator_step_function, dae_residual_function_collocated,
                   initial_residual_with_params_fun_map, cached_with, indices, control_size,
                   state_size, integrators, integrators_mx, solver_output, results,
                   evaluated, log, linear_collocation>>

\* optimize: the solver returns a decision vector for the NLP transcribe built;
\* entry i holds scale * (i + 1), so that no two entries are equal.
SolverScales == {3}

Solve ==
    /\ nlp.built
    /\ raised = ""
    /\ last_op = "transcribe"
    /\ \E scale \in SolverScales :
           solver_output' = [i \in 1..nlp.X |-> scale * i]
    /\ last_op' = "solve"
    /\ UNCHANGED <<problem, integrator_step_function, dae_residual_function_collocated,
                   initial_residual_with_params_fun_map, cached_with, indices, control_size,
                   state_size, nlp, integrators, integrators_mx, results, evaluated, raised,
                   log, linear_collocation>>

\* A call of state_at after the layout has been made.
StateAt ==
    /\ raised = ""
    /\ indices /= <<>>
    /\ \E m \in Members, variable \in Range(StateChain) :
         \E k \in 1..(IF variable \in Range(integrated_states)
                       THEN n_collocation_times ELSE Len(times(variable))) :
           results' = [op |-> "state_at", member |-> m, variable |-> variable, at |-> k,
                       values |-> state_at(variable, k, m)]
    /\ last_op' = "state_at"
    /\ UNCHANGED <<problem, integrator_step_function, dae_residual_function_collocated,
                   initial_residual_with_params_fun_map, cached_with, indices, control_size,
                   state_size, nlp, integrators, integrators_mx, solver_output, evaluated,
                   raised, log, linear_collocation>>

\* states_in(variable, t0, tf, ensemble_member) for t0 and tf among the times
\* of the history and of the grid: the knots [t, x] it collects, the
\* exception it raises, and the history the data provider holds afterwards.
\* The values of the history are a slice of the array the provider keeps,
\* and the multiplication by the sign of an alias is made in place.
states_in(variable, t0, tf, m) ==
    LET grid == times(variable)
        signed == IF variable \in DOMAIN Given("alias_relation", <<>>)
                  THEN problem.alias_relation[variable]
                  ELSE [canonical |-> variable, sign |-> 1]
        canonical == signed.canonical
        sign == signed.sign
        nominal == variable_nominal(canonical)
        state == [k \in DOMAIN grid |->
                     XRef(indices[m][canonical].start + k - 1, sign * nominal)]
        wanted == t0 < grid[1]
        missing == wanted /\ canonical \notin DOMAIN history(m)
        history_timeseries == history(m)[canonical]
        n_history == IF wanted /\ ~missing THEN Len(history_timeseries.times) - 1 ELSE 0
        history_times == [k \in 1..n_history |-> history_timeseries.times[k]]
        scaled == [k \in DOMAIN history_timeseries.values |->
                      IF k <= n_history /\ sign < 0
                      THEN (-1) * history_timeseries.values[k]
                      ELSE history_timeseries.values[k]]
        history_indices == {k \in 1..n_history : history_times[k] >= t0 /\ history_times[k] <= tf}
        grid_indices == {k \in DOMAIN grid : grid[k] >= t0 /\ grid[k] <= tf}
        Kept(values, kept) == SelectSeq([k \in DOMAIN values |-> <<k, values[k]>>],
                                        LAMBDA e : e[1] \in kept)
        Second(pairs) == [k \in DOMAIN pairs |-> pairs[k][2]]
    IN  IF missing
        THEN [raised |-> "Exception: No history found for variable " \o variable
                         \o ", but a historical value was requested",
              t |-> <<>>, x |-> <<>>, history |-> Given("history", <<>>)]
        ELSE [raised |-> "",
              t |-> Second(Kept(history_times, history_indices))
                    \o Second(Kept(grid, grid_indices)),
              x |-> [k \in 1..Cardinality(history_indices) |->
                        Num(Second(Kept(scaled, history_indices))[k])]
                    \o Second(Kept(state, grid_indices)),
              history |-> IF wanted
                          THEN [problem.history EXCEPT ![m][canonical].values = scaled]
                          ELSE Given("history", <<>>)]

\* The variables and the bounds of the interval a call of states_in or of
\* integral is made with: t0 a time of a history or of the grid, tf a time of
\* the grid, so that no value between two knots is interpolated.
QueryArguments ==
    {a \in [variable : {"x", "y"} \cup DOMAIN Given("alias_relation", <<>>),
            member : Members, t0 : -2..TimeAt(1), tf : {TimeAt(n_collocation_times)}] :
        \/ a.t0 = TimeAt(1)
        \/ \E v \in DOMAIN history(a.member) :
              \E k \in 1..(Len(history(a.member)[v].times) - 1) :
                  history(a.member)[v].times[k] = a.t0}

StatesIn ==
    /\ raised = ""
    /\ indices /= <<>>
    /\ \E a \in QueryArguments :
         LET call == states_in(a.variable, a.t0, a.tf, a.member)
         IN  /\ results' = [op |-> "states_in", member |-> a.member, variable |-> a.variable,
                             t0 |-> a.t0, tf |-> a.tf,
                             values |-> call.x]
             /\ problem' = IF "history" \in DOMAIN problem
                            THEN [problem EXCEPT !.history = call.history] ELSE problem
             /\ raised' = call.raised
    /\ last_op' = "states_in"
    /\ UNCHANGED <<integrator_step_function, dae_residual_function_collocated,
                   initial_residual_with_params_fun_map, cached_with, indices, control_size,
                   state_size, nlp, integrators, integrators_mx, solver_output, evaluated,
                   log, linear_collocation>>

\* integral(variable, t0, tf, ensemble_member): the trapezoid rule over the
\* knots that states_in collects, one term 0.5 * (lo + hi) * dt per interval.
Integral ==
    /\ raised = ""
    /\ indices /= <<>>
    /\ \E a \in QueryArguments :
         LET call == states_in(a.variable, a.t0, a.tf, a.member)
         IN  /\ results' = [op |-> "integral", member |-> a.member, variable |-> a.variable,
                             t0 |-> a.t0, tf |-> a.tf,
                             values |-> [k \in 1..(Len(call.x) - 1) |->
                                            [lo |-> call.x[k], hi |-> call.x[k + 1],
                                             dt |-> call.t[k + 1] - call.t[k]]]]
             /\ problem' = IF "history" \in DOMAIN problem
                            THEN [problem EXCEPT !.history = call.history] ELSE problem
             /\ raised' = call.raised
    /\ last_op' = "integral"
    /\ UNCHANGED <<integrator_step_function, dae_residual_function_collocated,
                   initial_residual_with_params_fun_map, cached_with, indices, control_size,
                   state_size, nlp, integrators, integrators_mx, solver_output, evaluated,
                   log, linear_collocation>>

ExtractStates ==
    /\ Len(solver_output) > 0
    /\ \E m \in Members :
           results' = [op |-> "extract_states", member |-> m, values |-> extract_states(m)]
    /\ last_op' = "extract_states"
    /\ UNCHANGED <<problem, integrator_step_function, dae_residual_function_collocated,
                   initial_residual_with_params_fun_map, cached_with, indices, control_size,
                   state_size, nlp, integrators, integrators_mx, solver_output, evaluated,
                   raised, log, linear_collocation>>

ExtractControls ==
    /\ Len(solver_output) > 0
    /\ \E m \in Members :
           results' = [op |-> "extract_controls", member |-> m, values |-> extract_controls(m)]
    /\ last_op' = "extract_controls"
    /\ UNCHANGED <<problem, integrator_step_function, dae_residual_function_collocated,
                   initial_residual_with_params_fun_map, cached_with, indices, control_size,
                   state_size, nlp, integrators, integrators_mx, solver_output, evaluated,
                   raised, log, linear_collocation>>

\* The data provider stops returning one of the inputs of the problem: the
\* value of a parameter or the series of a constant input for one ensemble
\* member, or a lookup table.
WithdrawInput ==
    /\ "lookup_table_symbols" \in DOMAIN problem
    /\ TranscribeException("inputs") = ""
    /\ Range(Given("lookup_table_symbols", <<>>)) \subseteq Given("lookup_tables", {})
    /\ \/ \E m \in Members :
              problem' = [problem EXCEPT !.parameter_values[m] = <<>>]
       \/ \E m \in Members :
              problem' = [problem EXCEPT !.missing_constant_inputs = {<<m, "ci">>}]
       \/ problem' = [problem EXCEPT !.lookup_tables = {}]
    /\ last_op' = "withdraw_input"
    /\ raised' = ""
    /\ nlp' = NoNLP
    /\ UNCHANGED <<integrator_step_function, dae_residual_function_collocated,
                   initial_residual_with_params_fun_map, cached_with, indices, control_size,
                   state_size, integrators, integrators_mx, solver_output, results,
                   evaluated, log, linear_collocation>>

----------------------------------------------------------------------------
\* The solver evaluates the accumulation at an iterate X, one step at a time.

\* The value of a term at the iterate X[i] = 2 * i + 1, given the outputs
\* of the steps evaluated before.
RECURSIVE Value(_, _)
Value(term, outputs) ==
    CASE term.kind = "X" -> Scaled(term.nom, 2 * term.idx + 1)
      [] term.kind = "num" -> Scaled(1, term.val)
      [] term.kind = "fd" ->
            [hi |-> Value(term.hi, outputs), lo |-> Value(term.lo, outputs), dt |-> term.dt]
      [] term.kind = "interp" ->
            [nom |-> term.nom, at |-> term.at,
             value |-> [k \in 1..term.n |-> 2 * (term.idx + k - 1) + 1]]
      [] term.kind = "I" ->
            [nom |-> 1, value |-> outputs[<<term.member, term.step>>].integrator.out[term.var]]

\* The outputs of step i of ensemble member m at the iterate.
StepValue(m, i, outputs) ==
    LET step == nlp.steps[m][i]
        Values(terms, known) == [k \in DOMAIN terms |-> Value(terms[k], known)]
        integrator ==
            IF step.integrator.fn = None THEN [out |-> <<>>]
            ELSE [out |-> [j \in DOMAIN integrated_variables |->
                              <<j, step.integrator.fn.name, step.integrator.p,
                                Values(step.integrator.x, outputs),
                                Values(step.integrator.I0, outputs)>>]]
        \* integrated_states_1 is the output of the integrator of this step
        ValueOfCall(call) ==
            IF call.fn = None THEN <<>>
            ELSE <<call.fn.name, call.p,
                   Values(call.x, outputs @@ (<<m, i>> :> [integrator |-> integrator]))>>
    IN  [integrator |-> integrator,
         residual |-> <<step.residual.start_weight, ValueOfCall(step.residual.start),
                        step.residual.end_weight, ValueOfCall(step.residual.end)>>,
         path_objective |-> ValueOfCall(step.path_objective)]

\* accumulated.map(n_collocation_times - 1, 'openmp') evaluates any column
\* at any time; accumulated.mapaccum(n_collocation_times - 1) feeds the first
\* output of a column into the next column.
EvaluateStep ==
    /\ nlp.built
    /\ raised = ""
    /\ last_op \in {"transcribe", "evaluate"}
    /\ \E m \in Members, i \in Steps :
          /\ <<m, i>> \notin DOMAIN evaluated
          /\ Len(integrated_variables) > 0 => (i = 1 \/ <<m, i - 1>> \in DOMAIN evaluated)
          /\ evaluated' = evaluated @@ (<<m, i>> :> StepValue(m, i, evaluated))
    /\ last_op' = "evaluate"
    /\ UNCHANGED <<problem, integrator_step_function, dae_residual_function_collocated,
                   initial_residual_with_params_fun_map, cached_with, indices, control_size,
                   state_size, nlp, integrators, integrators_mx, solver_output, results,
                   raised, log, linear_collocation>>

----------------------------------------------------------------------------
\* The state after construction.

NoResults == [op |-> "", member |-> 0, values |-> <<>>]

Constructed ==
    /\ integrator_step_function = None
    /\ dae_residual_function_collocated = None
    /\ initial_residual_with_params_fun_map = None
    /\ cached_with = <<>>
    /\ evaluated = <<>>
    /\ log = <<>>
    /\ linear_collocation = "None"
    /\ indices = <<>>
    /\ control_size = 0
    /\ state_size = 0
    /\ nlp = NoNLP
    /\ integrators = <<>>
    /\ integrators_mx = <<>>
    /\ solver_output = <<>>
    /\ results = NoResults
    /\ raised = ""
    /\ last_op = "__init__"

\* One row per differentiated state, depending on its derivative, and one
\* row without a derivative per algebraic state.
CanonicalDae(differentiated, algebraic) ==
    [k \in DOMAIN differentiated |-> [ders |-> {differentiated[k]}]]
    \o [k \in DOMAIN algebraic |-> [ders |-> {}]]

\* The orders in which integrated_states may list states of the model.
IntegratedStatesChoices(differentiated) ==
    IF Len(differentiated) = 1
    THEN {<<>>, <<"x">>}
    ELSE {<<>>, <<"x">>, <<"w">>, <<"x", "w">>, <<"w", "x">>}

Widths == 1..MaxWidth
GridChoices == {"collocation", "coarse", "shifted"}

\* A function with the grids of the variables that have one of their own.
OwnGrid(u_grid, x_grid, pv_grid) ==
    LET chosen == [v \in {"u", "x", "pv"} |->
                      IF v = "u" THEN u_grid ELSE IF v = "x" THEN x_grid ELSE pv_grid]
    IN  [v \in {w \in {"u", "x", "pv"} : chosen[w] /= "collocation"} |-> chosen[v]]

\* Problems that differ in the layout of the decision vector.  States and
\* controls share one choice of grid, path and extra variables one width.
LayoutProblems ==
    {[ensemble_size |-> E, n_times |-> MaxTimes,
      differentiated_states |-> <<"x", "w">>, algebraic_states |-> <<"y">>,
      controls |-> <<"u", "v">>, integrated_states |-> integrated,
      path_variables |-> path, extra_variables |-> extra,
      symbol_size |-> [v \in {"pv", "pw", "ev"} |-> IF v = "pw" THEN 1 ELSE width],
      own_grid |-> OwnGrid(grid, grid, pv_grid),
      bounds |-> <<>>, seed |-> <<>>,
      parameters |-> <<>>, parameter_values |-> [m \in 0..(E - 1) |-> <<>>],
      dynamic_parameters |-> {}, constant_inputs |-> <<>>,
      dae_residual |-> CanonicalDae(<<"x", "w">>, <<"y">>), initial_residual |-> 0,
      theta2 |-> 2, path_objective |-> FALSE,
      probability |-> [m \in 0..(E - 1) |-> 1]] :
        E \in 1..MaxEnsemble,
        integrated \in IntegratedStatesChoices(<<"x", "w">>),
        path \in {<<>>, <<"pv">>, <<"pv", "pw">>}, extra \in {<<>>, <<"ev">>},
        width \in Widths, grid \in {"collocation", "coarse"}, pv_grid \in GridChoices}

\* A grid or a width is chosen only for a variable that the problem has.
WellFormed(p) ==
    /\ "pv" \in DOMAIN p.own_grid => "pv" \in Range(p.path_variables)
    /\ "x" \in DOMAIN p.own_grid => "x" \notin Range(p.integrated_states)
    /\ p.path_variables = <<>> /\ p.extra_variables = <<>> => p.symbol_size["pv"] = 1

InitLayout ==
    /\ problem \in {p \in LayoutProblems : WellFormed(p)}
    /\ Constructed

NextLayout == Transcribe \/ Solve \/ ExtractStates \/ ExtractControls

SpecLayout == InitLayout /\ [][NextLayout]_vars

----------------------------------------------------------------------------
\* Problems that differ in what is transcribed: theta, the states that are
\* integrated, the rows of the DAE, constant inputs, a path objective.

ThetaChoices == {0, 1, 2}

DaeChoices ==
    {CanonicalDae(<<"x", "w">>, <<"y">>),
     <<[ders |-> {}], [ders |-> {"x", "w"}], [ders |-> {"w"}], [ders |-> {"x"}]>>,
     <<[ders |-> {"w"}], [ders |-> {}], [ders |-> {"x"}], [ders |-> {}]>>}

TranscriptionProblems ==
    {[ensemble_size |-> E, n_times |-> N,
      differentiated_states |-> <<"x", "w">>, algebraic_states |-> <<"y">>,
      controls |-> <<"u">>, integrated_states |-> integrated,
      path_variables |-> IF objective THEN <<"pv">> ELSE <<>>, extra_variables |-> <<>>,
      symbol_size |-> [v \in {"pv", "pw", "ev"} |-> 1],
      own_grid |-> OwnGrid(grid, "collocation", "collocation"),
      bounds |-> <<>>, seed |-> <<>>,
      parameters |-> <<>>, parameter_values |-> [m \in 0..(E - 1) |-> <<>>],
      dynamic_parameters |-> {},
      constant_inputs |-> IF inputs THEN <<"ci">> ELSE <<>>,
      dae_residual |-> dae, initial_residual |-> IF inputs THEN 1 ELSE 0,
      theta2 |-> theta_2, path_objective |-> objective,
      probability |-> [m \in 0..(E - 1) |-> m + 1]] :
        E \in 1..MaxEnsemble, N \in 2..MaxTimes,
        integrated \in IntegratedStatesChoices(<<"x", "w">>),
        dae \in DaeChoices, theta_2 \in ThetaChoices,
        grid \in {"collocation", "coarse"}, inputs \in BOOLEAN, objective \in BOOLEAN}

InitTranscription ==
    /\ problem \in TranscriptionProblems
    /\ Constructed

NextTranscription == Transcribe \/ ClearTranscriptionCache

SpecTranscription == InitTranscription /\ [][NextTranscription]_vars

----------------------------------------------------------------------------
\* Problems whose accumulation the solver evaluates step by step.

InitAccumulation ==
    /\ problem \in {p \in TranscriptionProblems :
                        /\ p.n_times = MaxTimes
                        /\ p.theta2 = 1
                        /\ p.dae_residual = CanonicalDae(<<"x", "w">>, <<"y">>)}
    /\ Constructed

NextAccumulation == Transcribe \/ EvaluateStep

SpecAccumulation == InitAccumulation /\ [][NextAccumulation]_vars

----------------------------------------------------------------------------
\* Problems that differ in the parameters of the ensemble: the values of
\* parameter k per member, which parameter is dynamic, and the bounds and
\* the seed of the control.

EnsembleProblems ==
    {[ensemble_size |-> E, n_times |-> 2,
      differentiated_states |-> <<"x", "w">>, algebraic_states |-> <<"y">>,
      controls |-> <<"u">>, integrated_states |-> integrated,
      path_variables |-> <<>>, extra_variables |-> <<>>,
      symbol_size |-> [v \in {"pv", "pw", "ev"} |-> 1],
      own_grid |-> <<>>,
      bounds |-> bounds, seed |-> seed,
      parameters |-> <<"k", "q">>,
      parameter_values |-> [m \in 0..(E - 1) |-> [k |-> IF m = 0 THEN a ELSE b, q |-> 7]],
      dynamic_parameters |-> dynamic, constant_inputs |-> <<>>,
      dae_residual |-> CanonicalDae(<<"x", "w">>, <<"y">>), initial_residual |-> 0,
      theta2 |-> 2, path_objective |-> TRUE,
      probability |-> [m \in 0..(E - 1) |-> m + 1]] :
        E \in 1..MaxEnsemble, integrated \in {<<>>, <<"x">>},
        a \in ParameterValues, b \in ParameterValues,
        dynamic \in {{}, {"k"}, {"q"}},
        bounds \in BoundsChoices, seed \in SeedChoices}

InitEnsemble ==
    /\ problem \in EnsembleProblems
    /\ Constructed

NextEnsemble ==
    Transcribe \/ ClearTranscriptionCache \/ SetParameters \/ SetBoundsAndSeed

SpecEnsemble == InitEnsemble /\ [][NextEnsemble]_vars

----------------------------------------------------------------------------
\* Problems that transcribe checks: each family varies the inputs of one
\* of the checks of transcribe over a plain problem.

CheckProblems ==
    LET Plain(E, integrated) ==
            [ensemble_size |-> E, n_times |-> 2,
             differentiated_states |-> <<"x", "w">>, algebraic_states |-> <<"y">>,
             controls |-> <<"u">>, integrated_states |-> integrated,
             path_variables |-> <<>>, extra_variables |-> <<>>,
             symbol_size |-> [v \in {"pv", "pw", "ev"} |-> 1],
             own_grid |-> <<>>, bounds |-> <<>>, seed |-> <<>>,
             parameters |-> <<>>, parameter_values |-> [m \in 0..(E - 1) |-> <<>>],
             dynamic_parameters |-> {}, constant_inputs |-> <<>>,
             dae_residual |-> CanonicalDae(<<"x", "w">>, <<"y">>), initial_residual |-> 0,
             theta2 |-> 2, path_objective |-> FALSE,
             probability |-> [m \in 0..(E - 1) |-> 1]]
        \* the symbol of a control or of an integrated state has two components
        VectorSymbols(E) ==
            {[symbol_size |-> [v \in {"pv", "pw", "ev", "u", "x"} |-> IF v = vector THEN 2 ELSE 1]]
                @@ Plain(E, integrated) :
                    vector \in {"u", "x"}, integrated \in {<<>>, <<"x">>}}
        \* a parameter, a constant input and a lookup table, each returned or not
        Inputs(E) ==
            {[parameters |-> <<"k">>,
              parameter_values |-> [m \in 0..(E - 1) |->
                                        IF <<m, "k">> \in missing THEN <<>> ELSE [k |-> 1]],
              constant_inputs |-> <<"ci">>,
              missing_constant_inputs |-> {<<m, "ci">> : m \in {n \in 0..(E - 1) : <<n, "ci">> \in missing}},
              lookup_table_symbols |-> <<"lt">>,
              lookup_tables |-> IF <<0, "lt">> \in missing THEN {} ELSE {"lt"}]
                @@ Plain(E, <<>>) :
                    missing \in {{}} \cup {{<<0, "lt">>}}
                                \cup {{<<m, name>>} : m \in 0..(E - 1), name \in {"k", "ci"}}}
        \* a delayed feedback with a history before the initial time 0
        DelayedFeedbacks(E) ==
            {[delayed_feedback |-> [delay |-> delay, history_times |-> history_times, nan |-> nan]]
                @@ Plain(E, <<>>) :
                    delay \in 0..3, history_times \in {<<>>, <<-1>>, <<-2, -1>>},
                    nan \in SUBSET {1, 2}}
        \* a lower or an upper bound of one variable is NaN
        NaNBounds(E) ==
            {[bounds |-> (v :> IF lower THEN <<NaN, 1>> ELSE <<-1, NaN>>),
              path_variables |-> <<"pv">>, extra_variables |-> <<"ev">>]
                @@ Plain(E, integrated) :
                    v \in {"u", "x", "y", "pv", "ev"}, lower \in BOOLEAN,
                    integrated \in {<<>>, <<"x">>}}
        \* a scalar constraint and a constraint of several rows, with bounds
        \* that are scalars (len 0) or arrays
        VectorConstraints(E) ==
            {[constraints |->
                <<[size |-> 1, lb |-> [len |-> 0, value |-> -1], ub |-> [len |-> 0, value |-> 1]],
                  [size |-> size, lb |-> [len |-> lower, value |-> 0],
                                  ub |-> [len |-> upper, value |-> 5]]>>]
                @@ Plain(E, <<>>) :
                    size \in 2..3, lower \in 0..3, upper \in 0..3}
        \* rows of the DAE residual that are not affine in the states
        NotAffine(E) ==
            {[non_affine |-> rows] @@ Plain(E, integrated) :
                rows \in {{}, {1}, {3}}, integrated \in {<<>>, <<"x">>}}
        \* a path constraint of one or two rows; each bound is a number, an
        \* array, a time series or an expression in the parameter k, whose
        \* value differs from member to member
        PathBound(kind, m, size, sign) ==
            CASE kind = "number" -> [kind |-> kind, value |-> sign * (m + 1)]
              [] kind = "array" -> [kind |-> kind, entries |-> [r \in 1..size |-> sign * (m + r)]]
              [] kind = "timeseries" ->
                    [kind |-> kind, times |-> <<1, 3>>,   \* the second and the third time
                     values |-> <<sign * (m + 1), sign * (m + 2)>>]
              [] kind = "parameter" -> [kind |-> kind, name |-> "k"]
        PathConstraintBounds(E) ==
            {[n_times |-> 3, parameters |-> <<"k">>,
              parameter_values |-> [m \in 0..(E - 1) |-> [k |-> m + 1]],
              path_constraints |->
                <<[size |-> size,
                   bounds |-> [m \in 0..(E - 1) |->
                                 [lb |-> PathBound(lower, m, size, -1),
                                  ub |-> PathBound(upper, m, size, 1)]]]>>]
                @@ Plain(E, <<>>) :
                    size \in 1..2,
                    lower \in {"number", "array", "timeseries", "parameter"},
                    upper \in {"number", "array", "timeseries", "parameter"}}
        \* a theta property that returns -0.5, 0, 0.5, 1 or 1.5
        Thetas(E) ==
            {[theta2 |-> theta_2] @@ Plain(E, integrated) :
                theta_2 \in -1..3, integrated \in {<<>>, <<"x">>}}
        \* histories of x and of u that end at the initial time 0, with values
        \* that differ from member to member
        Series(shape, m) ==
            CASE shape = "one" -> [times |-> <<0>>, values |-> <<6 + m>>]
              [] shape = "two" -> [times |-> <<-2, 0>>, values |-> <<5, 6 + m>>]
              [] shape = "last is NaN" -> [times |-> <<-2, 0>>, values |-> <<5, NaN>>]
              [] shape = "first is NaN" -> [times |-> <<-2, 0>>, values |-> <<NaN, 6 + m>>]
        Histories(E) ==
            {[history |-> [m \in 0..(E - 1) |->
                             (IF x = "none" THEN <<>> ELSE [x |-> Series(x, m)])
                             @@ (IF u = "none" THEN <<>> ELSE [u |-> Series(u, m)])],
              bounds |-> bounds]
                @@ Plain(E, integrated) :
                    x \in {"none", "one", "two", "last is NaN", "first is NaN"},
                    u \in {"none", "one"},
                    bounds \in {<<>>, [x |-> <<-1, 1>>]},
                    integrated \in {<<>>, <<"x">>, <<"w">>}}
        \* every combination of a history of x that leaves its initial
        \* derivative to a constraint, a delayed feedback, two constraints and
        \* a path constraint of two rows
        Combined(E) ==
            {[n_times |-> 3]
             @@ (IF with_history
                 THEN [history |-> [m \in 0..(E - 1) |-> [x |-> Series("last is NaN", m)]]]
                 ELSE <<>>)
             @@ (IF with_delay
                 THEN [delayed_feedback |->
                         [delay |-> 1, nan |-> {},
                          history_times |-> IF with_history THEN <<-2>> ELSE <<>>]]
                 ELSE <<>>)
             @@ (IF with_constraints
                 THEN [constraints |->
                         <<[size |-> 1, lb |-> [len |-> 0, value |-> -1],
                                        ub |-> [len |-> 0, value |-> 1]],
                           [size |-> 2, lb |-> [len |-> 0, value |-> -2],
                                        ub |-> [len |-> 2, value |-> 5]]>>]
                 ELSE <<>>)
             @@ (IF with_path
                 THEN [path_constraints |->
                         <<[size |-> 2,
                            bounds |-> [m \in 0..(E - 1) |->
                                          [lb |-> PathBound("array", m, 2, -1),
                                           ub |-> PathBound("timeseries", m, 2, 1)]]]>>]
                 ELSE <<>>)
             @@ Plain(E, integrated) :
                    with_history \in BOOLEAN, with_delay \in BOOLEAN,
                    with_constraints \in BOOLEAN, with_path \in BOOLEAN,
                    integrated \in {<<>>, <<"w">>}}
        \* constant inputs e1 and e2 that every member supplies and the DAE
        \* does not declare, with or without the constant input ci of the DAE
        ExtraConstantInputs(E) ==
            {[constant_inputs |-> declared,
              supplied_constant_inputs |->
                [m \in 0..(E - 1) |->
                    [j \in DOMAIN declared |-> [name |-> declared[j], size |-> 1]]
                    \o [j \in 1..n |-> [name |-> <<"e1", "e2">>[j], size |-> size]]]]
                @@ Plain(E, <<>>) :
                    declared \in {<<>>, <<"ci">>}, n \in 1..2, size \in 1..2}
        \* IOMixin as the data provider: the import times, a forecast index
        \* that leaves two times or more to optimize over, and imported
        \* values, which differ from member to member, for some variables
        Imports(E) ==
            {[import_times |-> import_times, forecast_index |-> forecast_index,
              timeseries_values |->
                [m \in 0..(E - 1) |->
                    [v \in imported |-> [k \in DOMAIN import_times |-> 10 * (m + 1) + k]]]]
                @@ Plain(E, integrated) :
                    import_times \in {<<-2, -1, 0, 1, 3>>, <<0, 1, 2, 4>>},
                    forecast_index \in 0..3, imported \in {{"x"}, {"u"}, {"x", "y", "u"}},
                    integrated \in {<<>>, <<"w">>}}
    IN  UNION {VectorSymbols(E) \cup Inputs(E) \cup NaNBounds(E) \cup VectorConstraints(E)
               \cup NotAffine(E) \cup PathConstraintBounds(E) \cup Thetas(E)
               \cup Histories(E) \cup Combined(E) \cup ExtraConstantInputs(E)
               \cup {p \in Imports(E) : p.forecast_index + 2 <= Len(p.import_times)}
               \cup {p \in DelayedFeedbacks(E) :
                        p.delayed_feedback.nan \subseteq DOMAIN p.delayed_feedback.history_times} :
                    E \in 1..MaxEnsemble}

InitChecks ==
    /\ problem \in CheckProblems
    /\ Constructed

NextChecks == Transcribe \/ ClearTranscriptionCache \/ WithdrawInput

SpecChecks == InitChecks /\ [][NextChecks]_vars

----------------------------------------------------------------------------
\* Problems whose states are read back after the transcription: a vector
\* path variable before a scalar one, a history of x that starts before the
\* initial time, and nx, an alias of x with sign -1.
QueryProblems ==
    {[ensemble_size |-> E, n_times |-> MaxTimes,
      differentiated_states |-> <<"x", "w">>, algebraic_states |-> <<"y">>,
      controls |-> <<"u">>, integrated_states |-> integrated,
      path_variables |-> path, extra_variables |-> <<>>,
      symbol_size |-> [v \in {"pv", "pw", "ev"} |-> IF v = "pv" THEN width ELSE 1],
      own_grid |-> <<>>, bounds |-> <<>>, seed |-> <<>>,
      parameters |-> <<>>, parameter_values |-> [m \in 0..(E - 1) |-> <<>>],
      dynamic_parameters |-> {}, constant_inputs |-> <<>>,
      dae_residual |-> CanonicalDae(<<"x", "w">>, <<"y">>), initial_residual |-> 0,
      theta2 |-> 2, path_objective |-> FALSE,
      probability |-> [m \in 0..(E - 1) |-> 1],
      alias_relation |-> [nx |-> [canonical |-> "x", sign |-> -1]],
      history |-> [m \in 0..(E - 1) |->
                     [x |-> [times |-> <<-2, -1, 0>>, values |-> <<4, 5, 6 + m>>]]]] :
        E \in 1..MaxEnsemble, integrated \in {<<>>}, path \in {<<"pv", "pw">>},
        width \in Widths}

InitQueries ==
    /\ problem \in {p \in QueryProblems : WellFormed(p)}
    /\ Constructed

NextQueries == Transcribe \/ StateAt \/ StatesIn \/ Integral

SpecQueries == InitQueries /\ [][NextQueries]_vars

----------------------------------------------------------------------------
\* Layout of the decision vector and extraction of results.

StateBlockVariables == Range(StateChain) \cup Range(extra_variable_names)
IndexSet(idx) == idx.start..(idx.stop - 1)
BlockLength == state_size \div ensemble_size
BlockStart(m) == control_size + m * BlockLength
Disjoint(m) ==
    \A v, w \in StateBlockVariables :
        v /= w => IndexSet(indices[m][v]) \cap IndexSet(indices[m][w]) = {}
Covered(m) == UNION {IndexSet(indices[m][v]) : v \in StateBlockVariables}

\* C1 (as stated): once transcribe has laid out the decision vector, the
\* index-map entries of a member's state-block variables are pairwise
\* disjoint, their union is the whole state block of the member, and X has
\* control_size + ensemble_size * S entries.
C1_LayoutAsStated ==
    indices /= <<>> =>
        /\ \A m \in Members :
               /\ Disjoint(m)
               /\ Covered(m) = BlockStart(m)..(BlockStart(m + 1) - 1)
        /\ nlp.built => nlp.X = control_size + ensemble_size * BlockLength

\* C1: once transcribe has laid out the decision vector, the index-map
\* entries of a member's state-block variables are pairwise disjoint and
\* their union is the state block of the member without its last
\* len(derivatives) slots, which hold the initial derivatives and have no
\* entry in the index map; X has control_size + ensemble_size * S entries.
C1_Layout ==
    indices /= <<>> =>
        /\ \A m \in Members :
               /\ Disjoint(m)
               /\ Covered(m) = BlockStart(m)..(BlockStart(m + 1) - Len(derivatives) - 1)
        /\ nlp.built => nlp.X = control_size + ensemble_size * BlockLength

\* A layout of two members with an integrated state, a path variable of
\* width 2 followed by another path variable, and an extra variable.
C1_Witness ==
    /\ last_op = "transcribe"
    /\ nlp.built
    /\ ensemble_size = 2
    /\ integrated_states = <<"x">>
    /\ path_variable_names = <<"pv", "pw">>
    /\ variable_sizes("pv") = 2
    /\ extra_variable_names = <<"ev">>

\* nominal(v) * solver_output[i] for the indices i of the index-map entry of (m, v).
SliceValues(m, v) ==
    [i \in 1..(indices[m][v].stop - indices[m][v].start) |->
        variable_nominal(v) * solver_output[indices[m][v].start + i]]

\* The entries of a matrix of results, component after component.
ByComponent(rows) ==
    LET n == Len(rows)
        size == Len(rows[1])
    IN  [k \in 1..(n * size) |-> rows[((k - 1) % n) + 1][((k - 1) \div n) + 1]]

\* The values returned for v in the order of the decision vector.
Series(v, value) ==
    IF v \in Range(path_variable_names) /\ variable_sizes(v) > 1
    THEN ByComponent(value)
    ELSE IF v \in Range(extra_variable_names) /\ variable_sizes(v) > 1
    THEN value[1]
    ELSE value

CollocatedStates ==
    {v \in Range(differentiated_states \o algebraic_states) : v \notin Range(integrated_states)}

\* C2: what extract_controls and extract_states(m) return for a control, a
\* collocated state, a path variable or an extra variable v is nominal(v)
\* times the solver output at the index-map slice of (m, v), in that order.
C2_RoundTrip ==
    /\ results.op = "extract_controls" =>
           \A v \in Range(controls) :
               results.values[v] = SliceValues(results.member, v)
    /\ results.op = "extract_states" =>
           \A v \in CollocatedStates \cup Range(path_variable_names)
                    \cup Range(extra_variable_names) :
               Series(v, results.values[v]) = SliceValues(results.member, v)

\* extract_states of the second member of a problem with an integrated
\* state, a control and a state on a coarse grid, a path variable of width 2
\* on a grid of its own, a second path variable and an extra variable.
C2_Witness ==
    /\ results.op = "extract_states"
    /\ results.member = 1
    /\ integrated_states = <<"w">>
    /\ DOMAIN problem.own_grid = {"u", "x", "pv"}
    /\ path_variable_names = <<"pv", "pw">>
    /\ variable_sizes("pv") = 2
    /\ extra_variable_names = <<"ev">>

----------------------------------------------------------------------------
\* The collocation constraints of the NLP.

\* transcribe has just returned an NLP.
Transcribed == last_op = "transcribe" /\ raised = "" /\ nlp.built

\* Collocated variable v of member m at collocation time k, as laid out in
\* the index map: its slot times its nominal, or the interpolation of its
\* slots when v has fewer points than the collocation grid.
ValueAt(m, v, k) ==
    LET idx == indices[m][v]
    IN  IF idx.stop - idx.start = n_collocation_times
        THEN XRef(idx.start + k - 1, variable_nominal(v))
        ELSE Interpolated(idx.start, idx.stop - idx.start, variable_nominal(v), k)

BackwardDifference(m, v, i) ==
    FiniteDifference(ValueAt(m, v, i + 1), ValueAt(m, v, i), TimeAt(i + 1) - TimeAt(i))

\* The integrated states at the start and at the end of step i of member m:
\* what the integrator of the step starts from and what it returns.
IntegratedAtStart(m, i) ==
    IF Len(integrated_variables) > 0 THEN nlp.steps[m][i].integrator.I0 ELSE <<>>
IntegratedAtEnd(m, i) ==
    [j \in DOMAIN integrated_variables |-> IntegratorOutput(m, i, j)]
IntegratedDifference(m, i) ==
    [j \in DOMAIN integrated_variables |->
        FiniteDifference(IntegratedAtEnd(m, i)[j], IntegratedAtStart(m, i)[j],
                         TimeAt(i + 1) - TimeAt(i))]

\* The arguments of the collocated residual for the values at collocation
\* time k, one of the two ends of step i.
ResidualArguments(m, i, k) ==
    (IF k = i THEN IntegratedAtStart(m, i) ELSE IntegratedAtEnd(m, i))
    \o [j \in DOMAIN collocated_variables |-> ValueAt(m, collocated_variables[j], k)]
    \o IntegratedDifference(m, i)
    \o [j \in DOMAIN collocated_variables |-> BackwardDifference(m, collocated_variables[j], i)]
    \o [j \in DOMAIN constant_inputs |-> Num(constant_input_at(m, constant_inputs[j], k))]
    \o <<Num(TimeAt(k) - TimeAt(1))>>

EvaluatedAt(call, m, i, k) ==
    /\ call.fn = dae_residual_function_collocated
    /\ call.x = ResidualArguments(m, i, k)

\* C3: the collocation constraint of every interval is the collocated
\* residual at the end of the interval when theta = 1, at its start when
\* theta = 0, and (1 - theta) * start + theta * end in between; the
\* derivative of a collocated variable is its backward difference.
C3_ThetaMethod ==
    Transcribed =>
        \A m \in Members : \A i \in Steps :
            LET r == nlp.steps[m][i].residual
            IN  /\ theta2 = 2 =>
                       /\ r.start_weight = 0 /\ r.start = NoCall
                       /\ r.end_weight = 2 /\ EvaluatedAt(r.end, m, i, i + 1)
                /\ theta2 = 0 =>
                       /\ r.start_weight = 2 /\ EvaluatedAt(r.start, m, i, i)
                       /\ r.end_weight = 0 /\ r.end = NoCall
                /\ theta2 = 1 =>
                       /\ r.start_weight = 1 /\ EvaluatedAt(r.start, m, i, i)
                       /\ r.end_weight = 1 /\ EvaluatedAt(r.end, m, i, i + 1)

\* A theta of 0, of 1/2 and of 1, each for two members, three collocation
\* times, an integrated state, a constant input and a control on a coarse grid.
C3_Witness_Theta(theta_2) ==
    /\ Transcribed
    /\ theta2 = theta_2
    /\ ensemble_size = 2 /\ n_collocation_times = 3
    /\ integrated_states = <<"x">>
    /\ constant_inputs = <<"ci">>
    /\ "u" \in DOMAIN problem.own_grid

C3_Witness == C3_Witness_Theta(1)

Rows(kind, m) == {k \in DOMAIN nlp.g : nlp.g[k].kind = kind /\ nlp.g[k].member = m}

\* C4: g holds for every member (rows of the collocated residual) *
\* (collocation times - 1) collocation rows and an initial-residual block
\* of (rows of the DAE residual + rows of the initial residual) rows, and
\* lbg = ubg = 0 for all of these rows.
C4_ConstraintCount ==
    Transcribed =>
        /\ \A m \in Members :
               /\ Cardinality(Rows("collocation", m))
                      = Len(dae_residual_function_collocated.rows) * (n_collocation_times - 1)
               /\ Cardinality(Rows("initial", m))
                      = Len(dae_residual) + problem.initial_residual
        /\ Len(nlp.lbg) = Len(nlp.g) /\ Len(nlp.ubg) = Len(nlp.g)
        /\ \A k \in DOMAIN nlp.g : nlp.lbg[k] = 0 /\ nlp.ubg[k] = 0

\* Two members, three collocation times, a collocated residual of two rows
\* and an initial residual of one row.
C4_Witness ==
    /\ Transcribed
    /\ ensemble_size = 2 /\ n_collocation_times = 3
    /\ Len(dae_residual_function_collocated.rows) = 2
    /\ problem.initial_residual = 1

\* The inputs of the path objective for member m at the initial time.
InitialArguments(m) ==
    LET names == integrated_variables \o collocated_variables
    IN  [j \in DOMAIN names |-> XRef(indices[m][names[j]].start, variable_nominal(names[j]))]
        \o [j \in DOMAIN names |->
               IF names[j] \in Range(differentiated_states)
               THEN InitialDerivative(
                        control_size + (m + 1) * (state_size \div ensemble_size)
                        - Len(derivatives) + IndexOf(differentiated_states, names[j]) - 1,
                        initial_dt(names[j]), variable_nominal(names[j]))
               ELSE Num(0)]
        \o [j \in DOMAIN constant_inputs |-> Num(constant_input_at(m, constant_inputs[j], 1))]
        \o <<Num(0)>>
        \o [j \in DOMAIN path_variable_names |->
               XRef(indices[m][path_variable_names[j]].start,
                    variable_nominal(path_variable_names[j]))]

\* C5: f is the sum over the members m of probability(m) * (objective(m)
\* + the path objective of m at the initial time + the path objective of m
\* at every step), every member once and with its own probability.
C5_Objective ==
    Transcribed =>
        /\ Len(nlp.f) = ensemble_size
        /\ \A m \in Members :
               LET f_member == nlp.f[m + 1]
               IN  /\ f_member.probability = problem.probability[m]
                   /\ f_member.objective = m
                   /\ problem.path_objective =>
                          /\ f_member.initial_path_objective.fn.name = "path_objective"
                          /\ f_member.initial_path_objective.x = InitialArguments(m)
                          /\ f_member.discretized_path_objective
                                 = [i \in Steps |-> [member |-> m, step |-> i]]
                          /\ \A i \in Steps :
                                 nlp.steps[m][i].path_objective.fn.name = "path_objective"
                   /\ ~problem.path_objective =>
                          /\ f_member.initial_path_objective = NoCall
                          /\ f_member.discretized_path_objective = <<>>

\* Two members of different probability, three collocation times, a path objective.
C5_Witness ==
    /\ Transcribed
    /\ ensemble_size = 2 /\ n_collocation_times = 3
    /\ problem.path_objective
    /\ problem.probability[0] /= problem.probability[1]

----------------------------------------------------------------------------
\* The split of the DAE residual.

Increasing(s) == \A a, b \in DOMAIN s : a < b => s[a] < s[b]

\* C9: every row of the DAE residual is in exactly one of the integrated and
\* the collocated subset; it is in the integrated one iff it depends on the
\* derivative of a state of integrated_states; both subsets keep the order
\* of the rows, and their sizes add up to the size of the residual.
C9_DaeSplit ==
    dae_residual_function_collocated.built =>
        LET integrated_rows == IF integrator_step_function.built
                               THEN integrator_step_function.rows ELSE <<>>
            collocated_rows == dae_residual_function_collocated.rows
        IN  /\ \A r \in DOMAIN dae_residual :
                   /\ r \in Range(integrated_rows)
                          <=> \E v \in Range(integrated_states) : v \in dae_residual[r].ders
                   /\ r \in Range(collocated_rows) <=> r \notin Range(integrated_rows)
            /\ Increasing(integrated_rows)
            /\ Increasing(collocated_rows)
            /\ Len(integrated_rows) + Len(collocated_rows) = Len(dae_residual)

\* A residual whose second and fourth row depend on the derivative of the
\* integrated state and whose first and third row do not.
C9_Witness ==
    /\ Transcribed
    /\ integrated_states = <<"x">>
    /\ dae_residual = <<[ders |-> {}], [ders |-> {"x", "w"}], [ders |-> {"w"}], [ders |-> {"x"}]>>
    /\ integrator_step_function.rows = <<2, 4>>
    /\ dae_residual_function_collocated.rows = <<1, 3>>

----------------------------------------------------------------------------
\* The results of the integrated variables.

\* C10 (as stated): extract_states(m) returns for every integrated variable
\* the outputs of the integrator chain of member m, one value per step,
\* times the nominal of the variable.
C10_IntegratedResults ==
    results.op = "extract_states" =>
        \A v \in Range(integrated_states) :
            results.values[v]
                = [i \in Steps |->
                      Scaled(variable_nominal(v),
                             IntegratorOutput(results.member, i, IndexOf(integrated_variables, v)))]

----------------------------------------------------------------------------
\* Classification of the parameters of the ensemble.

Identical(parameter) ==
    \A m \in Members : parameter_value(m, parameter) = parameter_value(0, parameter)

\* The value the constraints and the objective of member m see for a parameter.
ValueSeenBy(m, parameter) ==
    IF parameter \in Range(nlp.constant_parameters.names)
    THEN nlp.constant_parameters.values[IndexOf(nlp.constant_parameters.names, parameter)]
    ELSE nlp.parameters[m][IndexOf(ensemble_parameters, parameter)]

\* C6: a parameter is inlined as a constant if and only if its value is
\* identical for every ensemble member and it is not a dynamic parameter;
\* a parameter whose values differ between members stays a runtime input,
\* and every member is evaluated with its own value.
C6_Classification ==
    Transcribed =>
        \A parameter \in Range(parameters) :
            /\ parameter \in Range(nlp.constant_parameters.names)
                   <=> (Identical(parameter) /\ parameter \notin problem.dynamic_parameters)
            /\ \A m \in Members : ValueSeenBy(m, parameter) = parameter_value(m, parameter)

----------------------------------------------------------------------------
\* Repeated transcription with a warm cache.

\* What a transcription started from a cleared cache returns for the
\* inputs of now.
FreshNLP ==
    BuildNLP(IF Len(integrated_variables) > 0 THEN NewIntegratorStepFunction ELSE None,
             IF Len(collocated_variables) > 0 THEN NewDaeResidualFunctionCollocated ELSE None,
             NewInitialResidualFunMap(TRUE))

\* The parameters whose value is not the one read when the cache was filled.
ChangedParameters ==
    {parameter \in Range(parameters) :
        \E m \in Members : cached_with[m][parameter] /= parameter_value(m, parameter)}

\* C7 as stated: a transcribe without clear_transcription_cache returns
\* the constraints and the objective of a transcription started from a
\* cleared cache, whatever parameter value, bound or seed has changed.
C7_SafeAsStated ==
    Transcribed => nlp = FreshNLP

\* C7: a transcribe without clear_transcription_cache returns the
\* constraints and the objective of a transcription started from a cleared
\* cache after a change of a bound, of a seed, or of the value of a dynamic
\* parameter.
C7_Safe ==
    (Transcribed /\ ChangedParameters \subseteq problem.dynamic_parameters)
        => nlp = FreshNLP

\* A dynamic parameter has changed since the cache was filled, and so have
\* the bounds and the seed in force.
C7_Witness ==
    /\ Transcribed
    /\ ChangedParameters /= {}
    /\ ChangedParameters \subseteq problem.dynamic_parameters
    /\ nlp.x0_control /= [i \in DOMAIN nlp.x0_control |-> Over(0, 1)]
    /\ ensemble_size > 1

----------------------------------------------------------------------------
\* Lifecycle of the transcription cache.

CacheIsEmpty ==
    /\ integrator_step_function = None
    /\ dae_residual_function_collocated = None
    /\ initial_residual_with_params_fun_map = None

CacheIsFilled ==
    /\ integrator_step_function.built <=> Len(integrated_variables) > 0
    /\ dae_residual_function_collocated.built <=> Len(collocated_variables) > 0
    /\ initial_residual_with_params_fun_map.built

CachedFunctions ==
    <<integrator_step_function, dae_residual_function_collocated,
      initial_residual_with_params_fun_map>>

\* C8: the first transcribe after construction or after a clear builds the
\* cached functions (each one the problem has a part for), every later
\* transcribe leaves them as they are, and only clear_transcription_cache
\* discards them, all three at once.
C8_CacheLifecycle ==
    [][/\ (last_op' = "transcribe" /\ CacheIsEmpty) => CacheIsFilled'
       /\ (last_op' = "transcribe" /\ ~CacheIsEmpty) => UNCHANGED CachedFunctions
       /\ last_op' = "clear_transcription_cache" => CacheIsEmpty'
       /\ last_op' \notin {"transcribe", "clear_transcription_cache"}
              => UNCHANGED CachedFunctions
       /\ CacheIsEmpty \/ CacheIsFilled]_vars

\* A transcribe has reused functions that hold a parameter value of an
\* earlier call.
C8_Witness ==
    /\ last_op = "transcribe"
    /\ CacheIsFilled
    /\ dae_residual_function_collocated.constants /= Inlined

----------------------------------------------------------------------------
\* The accumulation over the collocation intervals.

Accumulated == nlp.built /\ raised = "" /\ last_op \in {"transcribe", "evaluate"}

\* The entries of X that belong to collocation time k for member m, and
\* the extra variables, which every step shares.
EntriesAt(m, k) ==
    {MergedIndex(m, collocated_variables[j]).start + k - 1 : j \in DOMAIN collocated_variables}
    \cup UNION {{MergedIndex(m, v).start + (c - 1) * n_collocation_times + k - 1 :
                    c \in 1..variable_sizes(v)} : v \in Range(path_variable_names)}

\* A term is a number, or a value of the decision vector at collocation
\* time i or i + 1: an entry, or the interpolation of a variable onto it.
ValueAtStep(term, m, i) ==
    LET Leaf(t) ==
            CASE t.kind = "num" -> TRUE
              [] t.kind = "X" -> t.idx \in EntriesAt(m, i) \cup EntriesAt(m, i + 1)
              [] t.kind = "interp" -> t.at \in {i, i + 1}
              [] OTHER -> FALSE
    IN  IF term.kind = "fd" THEN Leaf(term.hi) /\ Leaf(term.lo) ELSE Leaf(term)

ArgumentsOf(call) == IF call.fn = None THEN <<>> ELSE call.x

\* C11: without integrated states the outputs of step i (collocation
\* residual, path objective) are functions of the values of the decision
\* vector and the constant inputs at the collocation times i and i + 1, of
\* the parameters and of the extra variables only, so that whatever steps
\* have been evaluated before, in whatever order, a step has the same output.
C11_StepsIndependent ==
    (Accumulated /\ Len(integrated_variables) = 0) =>
        \A m \in Members, i \in Steps :
            LET step == nlp.steps[m][i]
                arguments == ArgumentsOf(step.residual.start) \o ArgumentsOf(step.residual.end)
                             \o ArgumentsOf(step.path_objective)
            IN  /\ step.integrator = NoCall
                /\ \A k \in DOMAIN arguments : ValueAtStep(arguments[k], m, i)
                /\ <<m, i>> \in DOMAIN evaluated => evaluated[<<m, i>>] = StepValue(m, i, <<>>)

\* The second step of a member has been evaluated before its first step.
C11_Witness ==
    /\ Accumulated
    /\ Len(integrated_variables) = 0
    /\ problem.path_objective
    /\ <<0, 2>> \in DOMAIN evaluated
    /\ <<0, 1>> \notin DOMAIN evaluated

\* C12: with integrated states the steps of a member are chained in
\* increasing time order; step 1 starts from the initial-value slot of
\* each integrated variable times its nominal, step i > 1 from the
\* integrated-state output of step i - 1 of the same member, and the
\* collocated residual of step i uses the integrated states at both ends
\* of step i.
C12_Chain ==
    (Accumulated /\ Len(integrated_variables) > 0) =>
        \A m \in Members, i \in Steps :
            LET step == nlp.steps[m][i]
                n == Len(integrated_variables)
                previous ==
                    IF i = 1
                    THEN [j \in 1..n |->
                            XRef(MergedIndex(m, integrated_variables[j]).start,
                                 variable_nominal(integrated_variables[j]))]
                    ELSE [j \in 1..n |-> IntegratorOutput(m, i - 1, j)]
                next == [j \in 1..n |-> IntegratorOutput(m, i, j)]
            IN  /\ step.integrator.I0 = previous
                /\ step.residual.start.fn /= None =>
                       SubSeq(step.residual.start.x, 1, n) = previous
                /\ step.residual.end.fn /= None =>
                       SubSeq(step.residual.end.x, 1, n) = next
                /\ <<m, i>> \in DOMAIN evaluated =>
                       (i = 1 \/ <<m, i - 1>> \in DOMAIN evaluated)

----------------------------------------------------------------------------
\* What transcribe rejects.

\* The controls and integrated states whose symbol has several components.
VectorSymbolsOf ==
    {v \in Range(integrated_states) \cup Range(controls) :
        v \in DOMAIN problem.symbol_size /\ problem.symbol_size[v] > 1}

\* C13: transcribe raises NotImplementedError for an integrated state and
\* for a control whose symbol has more than one component, before the
\* layout of the decision vector is made.
C13_VectorRejected ==
    (last_op = "transcribe" /\ VectorSymbolsOf /= {}) =>
        /\ raised \in {"NotImplementedError: Vector symbol not supported for " \o kind \o " state '"
                           \o v \o "'" : kind \in {"integrated", "control"}, v \in VectorSymbolsOf}
        /\ indices = <<>>
        /\ ~nlp.built

MissingParameters ==
    {e \in Members \X Range(parameters) : e[2] \notin DOMAIN problem.parameter_values[e[1]]}

MissingConstantInputs == Given("missing_constant_inputs", {})

MissingLookupTables ==
    {symbol \in Range(Given("lookup_table_symbols", <<>>)) : symbol \notin Given("lookup_tables", {})}

NamesMissing(message, names) == \E name \in names : raised = "Exception: " \o message \o name

\* C14 as stated: every transcribe call raises an exception that names
\* the variable when a parameter, a constant input or a lookup table is
\* missing, whether or not it reuses the cache.
C14_MissingInputAsStated ==
    last_op = "transcribe" =>
        /\ MissingParameters /= {} =>
              NamesMissing("No value specified for parameter ", {e[2] : e \in MissingParameters})
        /\ MissingConstantInputs /= {} =>
              NamesMissing("No values found for constant input ", {e[2] : e \in MissingConstantInputs})
        /\ MissingLookupTables /= {} =>
              NamesMissing("Unable to find lookup table function for ", MissingLookupTables)

\* C14: every transcribe call raises an exception that names the variable
\* when a parameter or a constant input is missing; when a lookup table is
\* missing, the call that fills the cache does (after it the cache is
\* still empty), and a call that reuses the cache returns an NLP.
C14_MissingInput ==
    last_op = "transcribe" =>
        /\ MissingParameters /= {} =>
              NamesMissing("No value specified for parameter ", {e[2] : e \in MissingParameters})
        /\ MissingConstantInputs /= {} =>
              NamesMissing("No values found for constant input ", {e[2] : e \in MissingConstantInputs})
        /\ (MissingLookupTables /= {} /\ dae_residual_function_collocated = None) =>
              NamesMissing("Unable to find lookup table function for ", MissingLookupTables)
        /\ (MissingLookupTables /= {} /\ dae_residual_function_collocated /= None) =>
              raised = "" /\ nlp.built

\* A call that reuses the cache has raised for a missing parameter.
C14_Witness ==
    /\ last_op = "transcribe"
    /\ MissingParameters /= {}
    /\ dae_residual_function_collocated /= None
    /\ raised = "Exception: No value specified for parameter k"
    /\ ~nlp.built

----------------------------------------------------------------------------
\* The history of a delayed feedback.

\* The history samples the delays need: from the latest history time not
\* after the earliest delayed time on, every one when there is none.
NeededHistory ==
    LET feedback == problem.delayed_feedback
        earliest == collocation_times[1] - feedback.delay
        not_after == {k \in DOMAIN feedback.history_times : feedback.history_times[k] <= earliest}
    IN  IF earliest >= collocation_times[1] THEN {}
        ELSE {k \in DOMAIN feedback.history_times : \A j \in not_after : k >= j}

HistoryWarning ==
    "WARNING: Incomplete history for delayed expression 1. "
    \o "Extrapolating t0 value backwards in time."

\* C15: when a needed history value of a delayed feedback is NaN,
\* transcribe logs the incomplete-history warning for every member and
\* builds the delayed side from the collocation times only; when none is,
\* it logs no warning and keeps the history samples.
C15_IncompleteHistory ==
    (Transcribed /\ "delayed_feedback" \in DOMAIN problem) =>
        LET feedback == problem.delayed_feedback
        IN  IF NeededHistory \cap feedback.nan /= {}
            THEN /\ log = [m \in 1..ensemble_size |-> HistoryWarning]
                 /\ \A m \in Members : nlp.delayed_feedback[m] = collocation_times
            ELSE /\ log = <<>>
                 /\ \A m \in Members :
                        nlp.delayed_feedback[m] = feedback.history_times \o collocation_times

----------------------------------------------------------------------------
\* Bounds that are not a number.

NaNLower == {v \in DOMAIN problem.bounds : problem.bounds[v][1] = NaN}
NaNUpper == {v \in DOMAIN problem.bounds : problem.bounds[v][2] = NaN}

HoldsNaN(bounds) == \E k \in DOMAIN bounds : bounds[k].inf = 0 /\ bounds[k].value = NaN

\* C16: for every decision variable with NaN in its lower or upper bound,
\* transcribe logs an error that names the variable, and it returns the
\* NLP with the NaN in lbx or ubx; it does not raise.
C16_NaNBound ==
    (last_op = "transcribe" /\ NaNLower \cup NaNUpper /= {}) =>
        /\ raised = ""
        /\ nlp.built
        /\ \A v \in NaNLower :
              /\ "ERROR: Lower bound on variable " \o v \o " contains NaN" \in Range(log)
              /\ HoldsNaN(nlp.lbx_control \o nlp.lbx_states)
        /\ \A v \in NaNUpper :
              /\ "ERROR: Upper bound on variable " \o v \o " contains NaN" \in Range(log)
              /\ HoldsNaN(nlp.ubx_control \o nlp.ubx_states)

----------------------------------------------------------------------------
\* Bounds of constraints of several rows.

\* The constraints of several rows with a bound of a length that is
\* neither 1 nor the number of rows.
ShapeMismatches ==
    {i \in DOMAIN problem.constraints :
        LET c == problem.constraints[i]
        IN  c.size > 1 /\ (c.lb.len \notin {0, 1, c.size} \/ c.ub.len \notin {0, 1, c.size})}

\* C17: for a constraint of s > 1 rows a scalar bound and a bound of
\* length 1 are broadcast to s entries and a bound of length s is used as
\* it is; a bound of another length makes transcribe raise a shape
\* mismatch that names the index of the constraint, and no NLP is returned.
C17_ConstraintBounds ==
    (last_op = "transcribe" /\ "constraints" \in DOMAIN problem) =>
        IF ShapeMismatches /= {}
        THEN /\ \E i \in ShapeMismatches, side \in {"lower", "upper"}, n \in 0..(MaxTimes + 2) :
                    LET c == problem.constraints[i]
                    IN  raised = "Exception: Shape mismatch between constraint #" \o ToString(i - 1)
                                 \o " (" \o ToString(c.size) \o ",) and its " \o side
                                 \o " bound (" \o ToString(n) \o ",)"
             /\ ~nlp.built
        ELSE /\ raised = ""
             /\ \A m \in Members, i \in DOMAIN problem.constraints :
                    LET c == problem.constraints[i]
                        rows == nlp.constraints[m][i]
                    IN  c.size > 1 =>
                            /\ rows.lbg = [k \in 1..c.size |-> c.lb.value]
                            /\ rows.ubg = [k \in 1..c.size |-> c.ub.value]
                            /\ Len(rows.g) = c.size

\* A scalar lower bound and an upper bound of length 3 for a constraint of 3 rows.
C17_Witness ==
    /\ Transcribed
    /\ "constraints" \in DOMAIN problem
    /\ problem.constraints[2].size = 3
    /\ problem.constraints[2].lb.len = 0
    /\ problem.constraints[2].ub.len = 3
    /\ Len(nlp.constraints[0][2].lbg) = 3

----------------------------------------------------------------------------
\* The check of the linearity of the collocated residual.

AffineCollocation == Range(dae_residual_collocated) \cap Given("non_affine", {}) = {}

NotAffineWarnings ==
    Len(SelectSeq(log, LAMBDA message :
            message = "WARNING: The DAE residual contains equations that are not affine."))

LinearityChecked ==
    /\ last_op = "transcribe"
    /\ "non_affine" \in DOMAIN problem
    /\ Given("check_collocation_linearity", TRUE)
    /\ Len(dae_residual_collocated) > 0

\* C18 as stated: a transcribe call leaves linear_collocation True and
\* logs no warning when the collocated residual is affine, and leaves it
\* False and logs exactly one warning when it is not; it completes, and
\* solver_options reports jac_c_constant = 'yes' exactly when
\* linear_collocation is True.
C18_LinearityAsStated ==
    LinearityChecked =>
        /\ raised = "" /\ nlp.built
        /\ linear_collocation = IF AffineCollocation THEN "True" ELSE "False"
        /\ NotAffineWarnings = IF AffineCollocation THEN 0 ELSE 1
        /\ solver_options.jac_c_constant = "yes" <=> linear_collocation = "True"

\* C18: as stated, but the warning is logged exactly once by a call that
\* fills the cache and not at all by a call that reuses it.
C18_Linearity ==
    [][LinearityChecked' =>
        /\ raised' = "" /\ nlp'.built
        /\ linear_collocation' = IF AffineCollocation' THEN "True" ELSE "False"
        /\ NotAffineWarnings' =
              IF ~AffineCollocation' /\ dae_residual_function_collocated = None THEN 1 ELSE 0
        /\ solver_options'.jac_c_constant = "yes" <=> linear_collocation' = "True"]_vars

\* A call that reuses the cache has left linear_collocation False and logged nothing.
C18_Witness ==
    /\ LinearityChecked
    /\ linear_collocation = "False"
    /\ solver_options.jac_c_constant = "no"
    /\ log = <<>>
    /\ nlp.built

----------------------------------------------------------------------------
\* Bounds of the path constraints.

\* What a bound of path_constraints(m) is at the k-th collocation time for
\* row r of the constraint, for member m.
ResolvedFor(m, bound, fill, k, r) ==
    CASE bound.kind = "number" -> Over(bound.value, 1)
      [] bound.kind = "array" -> Over(bound.entries[r], 1)
      [] bound.kind = "timeseries" ->
            LET at == {j \in DOMAIN bound.times : bound.times[j] = TimeAt(k)}
            IN  IF at = {} THEN fill ELSE Over(bound.values[CHOOSE j \in at : TRUE], 1)
      [] bound.kind = "parameter" -> Over(problem.parameter_values[m][bound.name], 1)

PathConstraintRows == {p \in DOMAIN nlp.g : nlp.g[p].kind = "path_constraint"}

\* The path constraint a row of g belongs to, and the row within it: the
\* problems of this model have one path constraint.
BoundsOfRow(p) == problem.path_constraints[1].bounds[nlp.g[p].member]

----------------------------------------------------------------------------
\* The controls are shared by the ensemble.

GridLength(v) == Len(times(v))

\* C20: every control has one slot per point of its own time grid, the
\* index map of every ensemble member holds the same slice for it, the
\* slices lie one after another in a control block whose length is the
\* sum of the grid lengths whatever the ensemble size, and
\* extract_controls returns the same series for every member.
C20_SharedControls ==
    /\ indices /= <<>> =>
          /\ \A m \in Members : \A v \in Range(controls) :
                /\ indices[m][v].stop - indices[m][v].start = GridLength(v)
                /\ indices[m][v] = indices[0][v]
          /\ \A v, w \in Range(controls) :
                v /= w => IndexSet(indices[0][v]) \cap IndexSet(indices[0][w]) = {}
          /\ UNION {IndexSet(indices[0][v]) : v \in Range(controls)} = 0..(control_size - 1)
          /\ control_size = SumSeq([k \in DOMAIN controls |-> GridLength(controls[k])])
    /\ results.op = "extract_controls" =>
          \A m \in Members :
                /\ extract_controls(m) = results.values
                /\ \A v \in Range(controls) : results.values[v] = SliceValues(m, v)

\* The controls of the second of two members have been extracted; one of
\* the controls is on a grid of its own.
C20_Witness ==
    /\ results.op = "extract_controls"
    /\ results.member = 1
    /\ ensemble_size = 2
    /\ "u" \in DOMAIN problem.own_grid
    /\ GridLength("u") < n_collocation_times

----------------------------------------------------------------------------
\* Integration and collocation with theta = 1.

\* The lists of integrated states of the hybrid shooting tests.
DeclaredChoices == {<<>>, <<"x">>, <<"w">>, <<"x", "w">>}

\* Variable v of member m at collocation time k: an entry of X for a
\* collocated variable and for an integrated one at the first time, the
\* output of the integrator after k - 1 steps otherwise.
VariableAt(m, v, k) ==
    IF v \in Range(integrated_variables)
    THEN IF k = 1
         THEN XRef(MergedIndex(m, v).start, variable_nominal(v))
         ELSE IntegratorOutput(m, k - 1, IndexOf(integrated_variables, v))
    ELSE InterpolatedState(m, v, k)

\* What backward Euler over [t_i, t_i+1] puts for a symbol of the DAE:
\* (v(t_i+1) - v(t_i)) / dt for a derivative, the value at t_i+1 for
\* everything else.
BackwardEuler(m, i, symbol) ==
    LET dt == TimeAt(i + 1) - TimeAt(i)
    IN  IF symbol.der
        THEN FiniteDifference(VariableAt(m, symbol.sym, i + 1), VariableAt(m, symbol.sym, i), dt)
        ELSE IF symbol.sym = "time" THEN Num(TimeAt(i + 1) - initial_time)
        ELSE IF symbol.sym = "dt" THEN Num(dt)
        ELSE IF symbol.sym \in Range(constant_inputs)
             THEN Num(constant_input_at(m, symbol.sym, i + 1))
        ELSE VariableAt(m, symbol.sym, i + 1)

\* C21: for theta = 1 and each of the choices of integrated states (none,
\* x, w, both), every row of the DAE is imposed once per step, either by
\* the integrator or by the collocation constraint, and in both every
\* symbol is bound as backward Euler binds it: a derivative to
\* (I_1 - I_0) / dt with I_0 the state at t_i, everything else to its
\* value at t_i+1.
C21_BackwardEuler ==
    (Transcribed /\ theta2 = 2 /\ integrated_states \in DeclaredChoices) =>
        \A m \in Members : \A i \in Steps :
            LET step == nlp.steps[m][i]
                integrator == step.integrator
                end == step.residual.end
                dt_at == Len(collocated_variables) + Len(constant_inputs) + 1
                IntegratedRows == IF integrator.fn = None THEN {} ELSE Range(integrator.fn.rows)
                CollocatedRows == IF end.fn = None THEN {} ELSE Range(end.fn.rows)
            IN  /\ IntegratedRows \cup CollocatedRows = DOMAIN dae_residual
                /\ IntegratedRows \cap CollocatedRows = {}
                /\ Len(integrated_variables) > 0 <=> integrator.fn /= None
                /\ integrator.fn /= None =>
                      /\ integrator.fn.theta2 = 2
                      /\ \A j \in DOMAIN integrated_variables :
                            integrator.I0[j] = VariableAt(m, integrated_variables[j], i)
                      /\ \A k \in dt_at..Len(integrator.x) :
                            integrator.x[k] = BackwardEuler(m, i, integrator.fn.args[k])
                /\ end.fn /= None =>
                      /\ step.residual.end_weight = 2 /\ step.residual.start_weight = 0
                      /\ \A k \in DOMAIN end.x :
                            end.x[k] = BackwardEuler(m, i, end.fn.args[k])

\* Two members, the longest horizon, theta = 1, and w alone integrated.
C21_Witness ==
    /\ Transcribed
    /\ theta2 = 2
    /\ integrated_states = <<"w">>
    /\ ensemble_size = 2
    /\ n_collocation_times = MaxTimes
    /\ nlp.steps[1][MaxTimes - 1].integrator.fn /= None
    /\ nlp.steps[1][MaxTimes - 1].residual.end.fn /= None

----------------------------------------------------------------------------
\* The range of theta.

----------------------------------------------------------------------------
\* The seed of the controls.

\* C23: the x0 slots of a control with a seed hold the seed divided by the
\* nominal of the control, whether or not bounds() has an entry for the
\* control; a control without a seed keeps x0 = 0, and a control without
\* an entry in bounds() keeps lbx = -inf and ubx = +inf.
C23_ControlSeed ==
    Transcribed =>
        \A v \in Range(controls) : \A slot \in IndexSet(indices[0][v]) :
            /\ nlp.x0_control[slot + 1] =
                  IF v \in DOMAIN problem.seed
                  THEN Over(problem.seed[v], variable_nominal(v))
                  ELSE Over(0, 1)
            /\ v \notin DOMAIN problem.bounds =>
                  /\ nlp.lbx_control[slot + 1] = MinusInf
                  /\ nlp.ubx_control[slot + 1] = PlusInf

----------------------------------------------------------------------------
\* The initial residual and the initial conditions from the history.

\* What a symbol of the initial residual function stands for at the
\* initial time for member m: the first slot of the variable times its
\* nominal, and for a derivative the initial derivative of the variable.
AtInitialTimeOf(m, symbol) ==
    IF symbol.der
    THEN initial_derivatives(m)[IndexOf(integrated_variables \o collocated_variables, symbol.sym)]
    ELSE IF symbol.sym = "time" THEN Num(0)
    ELSE IF symbol.sym \in Range(constant_inputs)
         THEN Num(constant_input_at(m, symbol.sym, 1))
    ELSE XRef(MergedIndex(m, symbol.sym).start, variable_nominal(symbol.sym))

\* The initial derivative of a differentiated state: its slot behind the
\* states of the member.
InitialDerivativeOf(m, v) ==
    InitialDerivative(der_offset(m) + IndexOf(differentiated_states, v) - 1,
                      initial_dt(v), variable_nominal(v))

\* The differentiated states of member m whose history gives a constraint
\* on the initial derivative, in the order of the constraints.
ConstrainedStates(m) ==
    SelectSeq(differentiated_states,
              LAMBDA v : /\ v \in DOMAIN history(m)
                         /\ Len(history(m)[v].times) > 1
                         /\ history(m)[v].values[Len(history(m)[v].values) - 1] /= NaN
                         /\ history(m)[v].values[Len(history(m)[v].values)] = NaN)

\* C24: in the initial-residual block of every member every state,
\* algebraic and control symbol is bound to the first slot of that variable
\* (times its nominal) and every derivative symbol to the initial
\* derivative of that variable; the constraint on the initial derivative
\* that the history of a state gives is on the initial derivative of that
\* state; for every choice of integrated states.
C24_InitialBinding ==
    Transcribed =>
        \A m \in Members :
            LET call == nlp.initial[m]
                constraints == nlp.initial_conditions[m].initial_derivative_constraints
            IN  /\ \A k \in DOMAIN call.x : call.x[k] = AtInitialTimeOf(m, call.fn.args[k])
                /\ \A v \in Range(differentiated_states) :
                      initial_derivatives(m)[IndexOf(integrated_variables \o collocated_variables, v)]
                          = InitialDerivativeOf(m, v)
                /\ \A k \in DOMAIN constraints :
                      constraints[k].sym = InitialDerivativeOf(m, ConstrainedStates(m)[k])

----------------------------------------------------------------------------
\* Initial values from the history.

\* The value of the history of v for member m at the initial time, NaN
\* when the history has none.
HistoryValue(m, v) ==
    LET series == history(m)[v]
        at == {k \in DOMAIN series.times : series.times[k] = initial_time}
    IN  IF at = {} THEN NaN ELSE series.values[CHOOSE k \in at : TRUE]

\* The pairs of a member and a state or control with a value at the initial time.
WithInitialValue ==
    {e \in Members \X Range(differentiated_states \o algebraic_states \o controls) :
        e[2] \in DOMAIN history(e[1]) /\ HistoryValue(e[1], e[2]) /= NaN}

DeclaredBounds ==
    [lbx |-> nlp.lbx_control \o nlp.lbx_states, ubx |-> nlp.ubx_control \o nlp.ubx_states]

InitialDerivativeSlots ==
    UNION {{der_offset(m) + k - 1 : k \in DOMAIN differentiated_states} : m \in Members}

\* C26: for every member m and every state or control v whose history for
\* m has a value at the initial time, lbx and ubx at the first slot of v
\* for m are that value over the nominal of v, with a warning when it lies
\* outside the declared bounds; the other slots keep their declared bounds.
C26_InitialValues ==
    (Transcribed /\ "history" \in DOMAIN problem) =>
        /\ \A e \in WithInitialValue :
              LET slot == MergedIndex(e[1], e[2]).start + 1
                  value == Over(HistoryValue(e[1], e[2]), variable_nominal(e[2]))
              IN  /\ nlp.lbx[slot] = value
                  /\ nlp.ubx[slot] = value
                  /\ (e[2] \in DOMAIN problem.bounds
                      /\ (value.value < problem.bounds[e[2]][1]
                          \/ value.value > problem.bounds[e[2]][2])) =>
                        "WARNING: Initial value for variable '" \o e[2] \o "' outside bounds."
                            \in Range(log)
        /\ \A slot \in DOMAIN nlp.lbx :
              (/\ slot - 1 \notin InitialDerivativeSlots
               /\ \A e \in WithInitialValue : MergedIndex(e[1], e[2]).start + 1 /= slot) =>
                    /\ nlp.lbx[slot] = DeclaredBounds.lbx[slot]
                    /\ nlp.ubx[slot] = DeclaredBounds.ubx[slot]

----------------------------------------------------------------------------
\* state_at and the layout.

\* C25: for a scalar state, algebraic state or path variable v, a member m
\* and the k-th time of the grid of v, state_at(v, t_k, m, scaled=True) is
\* the entry of X at position k of the index-map slice of (m, v), whatever
\* the variables before v and their widths.
C25_StateAt ==
    (/\ results.op = "state_at"
     /\ variable_sizes(results.variable) = 1
     /\ results.at <= indices[results.member][results.variable].stop
                      - indices[results.member][results.variable].start) =>
        results.values
            = XRef(indices[results.member][results.variable].start + results.at - 1, 1)

----------------------------------------------------------------------------
\* states_in, integral and the data provider.

\* C28: a call of states_in or of integral, for any variable (an alias with
\* sign -1 included) and any interval, also one that starts before the first
\* time of the grid, leaves the series that history(m) returns as they were,
\* and a call made with the arguments of the call before it returns the
\* expression that call returned.
C28_ReadOnly ==
    [][last_op' \in {"states_in", "integral"} =>
          /\ \A m \in Members : history(m)' = history(m)
          /\ (/\ last_op = last_op'
               /\ raised' = ""
               /\ results.member = results'.member
               /\ results.variable = results'.variable
               /\ results.t0 = results'.t0
               /\ results.tf = results'.tf) =>
                    results'.values = results.values]_vars

----------------------------------------------------------------------------
\* The bounds of the rows of g.

\* A bound of a path constraint as transcribe resolves it for the row r of
\* the constraint at the k-th collocation time.
AsResolved(bound, fill, k, r) ==
    CASE bound.kind = "number" -> Over(bound.value, 1)
      [] bound.kind = "array" -> Over(bound.entries[r], 1)
      [] bound.kind = "timeseries" ->
            LET at == {j \in DOMAIN bound.times : bound.times[j] = TimeAt(k)}
            IN  IF at = {} THEN fill ELSE Over(bound.values[CHOOSE j \in at : TRUE], 1)
      [] bound.kind = "parameter" -> Over(problem.parameter_values[0][bound.name], 1)

\* The bounds of the row at position p of g, found from what the row is:
\* zero for a row of the initial residual, an initial-derivative
\* constraint, a collocation row and a delay constraint, the bounds of
\* constraints(m) for a row of a constraint, and the bounds of the path
\* constraint at the time of the row for a row of a path constraint.
BoundsOfPosition(p) ==
    LET row == nlp.g[p]
    IN  CASE row.kind = "constraint" ->
                [lb |-> problem.constraints[row.step + 1].lb.value,
                 ub |-> problem.constraints[row.step + 1].ub.value]
          [] row.kind = "path_constraint" ->
                [lb |-> AsResolved(problem.path_constraints[1].bounds[row.member].lb,
                                   MinusInf, row.step + 1, row.row),
                 ub |-> AsResolved(problem.path_constraints[1].bounds[row.member].ub,
                                   PlusInf, row.step + 1, row.row)]
          [] OTHER -> [lb |-> 0, ub |-> 0]

KindsOfRows == {nlp.g[p].kind : p \in DOMAIN nlp.g}

\* C27: lbg and ubg have as many entries as g has rows and their k-th
\* entries are the bounds of the k-th row of g, whichever of the rows of
\* the initial residual, the initial-derivative constraints, the
\* collocation rows, the delay constraints, the constraints and the path
\* constraints the problem has and for every ensemble size; the rows of
\* the path constraints of a member come time after time, the initial
\* time first.
C27_BoundsAligned ==
    Transcribed =>
        /\ Len(nlp.lbg) = Len(nlp.g)
        /\ Len(nlp.ubg) = Len(nlp.g)
        /\ \A p \in DOMAIN nlp.g :
              /\ nlp.lbg[p] = BoundsOfPosition(p).lb
              /\ nlp.ubg[p] = BoundsOfPosition(p).ub
        /\ \A p, q \in DOMAIN nlp.g :
              (/\ p < q
               /\ nlp.g[p].kind = "path_constraint"
               /\ nlp.g[q].kind = "path_constraint"
               /\ nlp.g[p].member = nlp.g[q].member) =>
                    \/ nlp.g[p].step < nlp.g[q].step
                    \/ nlp.g[p].step = nlp.g[q].step /\ nlp.g[p].row < nlp.g[q].row
        /\ \A p \in DOMAIN nlp.g :
              nlp.g[p].kind = "path_constraint" =>
                  \E q \in DOMAIN nlp.g :
                      /\ q <= p
                      /\ nlp.g[q].kind = "path_constraint"
                      /\ nlp.g[q].member = nlp.g[p].member
                      /\ nlp.g[q].step = 0

\* Two members, each with rows of every kind.
C27_Witness ==
    /\ Transcribed
    /\ ensemble_size = 2
    /\ KindsOfRows = {"initial", "initial_derivative", "collocation", "delayed_feedback",
                      "constraint", "path_constraint"}
    /\ Len(nlp.lbg) = Len(nlp.g)
    /\ \E p \in DOMAIN nlp.g : nlp.g[p].kind = "path_constraint" /\ nlp.lbg[p] /= nlp.ubg[p]

----------------------------------------------------------------------------
\* The constant inputs that the DAE does not declare.

\* The names that constant_inputs() supplies for some member and the DAE
\* does not declare, and the size of the series of a name.
ExtraNames ==
    {x.name : x \in UNION {Range(problem.supplied_constant_inputs[m]) : m \in Members}}
        \ Range(constant_inputs)

SizeOfExtra(name) ==
    LET x == CHOOSE x \in UNION {Range(problem.supplied_constant_inputs[m]) : m \in Members} :
                 x.name = name
    IN  x.size

\* C29: after transcribe the list of the symbols of the extra constant
\* inputs holds one symbol for every name that constant_inputs() supplies
\* and the DAE does not declare, whatever the ensemble size, and the vector
\* of the inputs of a step has one block for each of these names.
C29_ExtraConstantInputs ==
    (Transcribed /\ "supplied_constant_inputs" \in DOMAIN problem) =>
        /\ Len(nlp.extra_constant_inputs) = Cardinality(ExtraNames)
        /\ \A name \in ExtraNames :
              Cardinality({j \in DOMAIN nlp.extra_constant_inputs :
                              nlp.extra_constant_inputs[j].name = name}) = 1
        /\ nlp.accumulated_U
              = 2 * (Len(collocated_variables) + Len(constant_inputs) + 1)
                + SumSeq([j \in DOMAIN path_variable_names |->
                             variable_sizes(path_variable_names[j])])
                + SumSeq([j \in 1..Cardinality(ExtraNames) |->
                             SizeOfExtra(IF j = 1 /\ "e1" \in ExtraNames THEN "e1" ELSE "e2")])

----------------------------------------------------------------------------
\* The history and the times of IOMixin.

\* C30: with IOMixin as the data provider, for every forecast index and
\* every variable of the model with imported data, the series of
\* history(m) has the import times up to and including the forecast index;
\* its last time is the first time of times(), the only time the two have
\* in common, and transcribe never fails the assertion that a history of
\* several points ends at the first collocation time.
C30_HistoryMeetsTimes ==
    "import_times" \in DOMAIN problem =>
        /\ \A m \in Members : \A v \in DOMAIN problem.timeseries_values[m] :
              /\ v \in DOMAIN history(m)
              /\ history(m)[v].times
                    = [k \in 1..(problem.forecast_index + 1) |-> problem.import_times[k]]
              /\ Len(history(m)[v].values) = Len(history(m)[v].times)
              /\ history(m)[v].times[Len(history(m)[v].times)] = times(v)[1]
              /\ Range(history(m)[v].times) \cap Range(times(v)) = {times(v)[1]}
        /\ last_op = "transcribe" => raised /= "AssertionError"

\* A transcription with a history of three points for the state x.
C30_Witness ==
    /\ "import_times" \in DOMAIN problem
    /\ Transcribed
    /\ problem.forecast_index = 2
    /\ "x" \in DOMAIN history(0)
    /\ Len(history(0)["x"].times) = 3
    /\ history(0)["x"].times[1] /= times("x")[1]
    /\ n_collocation_times = 3

====
